---- MODULE Spec2Model ----
(***************************************************************************)
(* Model of the f90x-tool protocol engine: the framed packet codec and     *)
(* command encoder (camera_interface/messaging.rs), the camera session     *)
(* operations over a serial transport (camera_interface.rs) and the        *)
(* command runs built from them (cli_commands.rs).                         *)
(*                                                                         *)
(* Two specifications share the variables:                                 *)
(*   SpecCodec  the pure packet codec applied to bounded payloads;         *)
(*   Spec       the session and command operations, each run against a     *)
(*              scripted transport whose outcomes are chosen freely.       *)
(***************************************************************************)
EXTENDS Integers, Sequences, FiniteSets, TLC

VARIABLES
    payload,    \* codec: the payload handed to DataPacket { bytes }
    framed,     \* codec: the byte sequence handed to DataPacket::deserialize
    decoded,    \* codec: the Result of DataPacket::deserialize
    stage,      \* codec: "input" | "serialized" | "deserialized"; "off" under Spec
    baud,       \* session: line speed of the transport the connection owns
    trace,      \* session: events of the last operation, in program order
    outcome     \* session: the last operation, its arguments and its Result

vars == <<payload, framed, decoded, stage, baud, trace, outcome>>

-----------------------------------------------------------------------------
(* Bounds of the model *)

\* longest payload the codec specification draws
MaxPayloadLen == 3

\* byte values the payloads are drawn from: both frame markers, the ACK byte,
\* and the values around the checksum modulus
PayloadBytes == {0, 2, 3, 6, 254, 255}

RECURSIVE SeqsUpTo(_, _)
SeqsUpTo(S, n) ==
    IF n = 0 THEN {<<>>}
    ELSE LET shorter == SeqsUpTo(S, n - 1)
         IN  shorter \cup {Append(s, b) : s \in {x \in shorter : Len(x) = n - 1}, b \in S}

\* payloads longer than any the driver is asked to send, filled with the
\* largest bytes: the sum of the second is above what a u16 holds
LongPayloads ==
    {[i \in 1 .. 255 |-> 255], [i \in 1 .. 300 |-> 255], [i \in 1 .. 258 |-> 254]}

\* the byte sequences of the codec's tests: packets with a wrong checksum,
\* start or end, and the two well-formed ones
TestPackets ==
    {<<2, 4, 3, 6, 3>>, <<1, 4, 3, 7, 3>>, <<2, 4, 3, 7, 4>>, <<2, 4, 3, 7, 3>>,
     <<2, 250, 10, 4, 9, 3>>}

Payloads == SeqsUpTo(PayloadBytes, MaxPayloadLen) \cup LongPayloads \cup TestPackets

-----------------------------------------------------------------------------
(* camera_interface/messaging.rs : DataPacket *)

Ok(v)  == [ok |-> TRUE, val |-> v]
Err(e) == [ok |-> FALSE, val |-> e]

\* one turn of the loop on the u16 accumulator: checksum += byte; checksum %= 0xFF
\* the loop's turn on a u8 accumulator
checksum_step_wrapping_u8(checksum, byte) == ((checksum + byte) % 256) % 255

\* the loop's turn without checksum %= 0xFF
checksum_step_without_reduction(checksum, byte) == (checksum + byte) % 65536

checksum_step(checksum, byte) == ((checksum + byte) % 65536) % 255

\* the loop over data[lo .. hi], first byte to last, the accumulator passed
\* from each byte to the next.  The range is halved, and the accumulator
\* looked at on entry, only to keep the evaluation shallow: the bytes are
\* still taken in order, and a u16 is never above 65535.
RECURSIVE checksum_loop(_, _, _, _)
checksum_loop(data, lo, hi, checksum) ==
    IF lo > hi \/ checksum > 65535 THEN checksum
    ELSE IF lo = hi THEN checksum_step(checksum, data[lo])
    ELSE LET mid == (lo + hi) \div 2
         IN  checksum_loop(data, mid + 1, hi, checksum_loop(data, lo, mid, checksum))

calculate_checksum(data) == (checksum_loop(data, 1, Len(data), 0) % 255) % 256

serialize(bytes) == (<<2>> \o bytes) \o <<calculate_checksum(bytes), 3>>

\* deserialize that does not look at the last byte
deserialize_without_end_check(data) ==
    IF Len(data) < 4 THEN Err("Data packet has incorrect number of bytes.")
    ELSE IF data[1] # 2 THEN Err("Data packet header is wrong.")
    ELSE LET checksum_index == Len(data) - 1
             payload_bytes  == SubSeq(data, 2, checksum_index - 1)
             expected_checksum == calculate_checksum(payload_bytes)
         IN  IF expected_checksum # data[checksum_index]
             THEN Err("Received wrong checksum.")
             ELSE Ok(payload_bytes)

\* deserialize taking 3 bytes for enough
deserialize_accepting_3_bytes(data) ==
    IF Len(data) < 3 THEN Err("Data packet has incorrect number of bytes.")
    ELSE IF data[1] # 2 THEN Err("Data packet header is wrong.")
    ELSE IF data[Len(data)] # 3 THEN Err("Data packet end is wrong.")
    ELSE LET checksum_index == Len(data) - 1
             payload_bytes  == SubSeq(data, 2, checksum_index - 1)
             expected_checksum == calculate_checksum(payload_bytes)
         IN  IF expected_checksum # data[checksum_index]
             THEN Err("Received wrong checksum.")
             ELSE Ok(payload_bytes)

\* deserialize comparing the checksums modulo 255
deserialize_checksum_modulo_255(data) ==
    IF Len(data) < 4 THEN Err("Data packet has incorrect number of bytes.")
    ELSE IF data[1] # 2 THEN Err("Data packet header is wrong.")
    ELSE IF data[Len(data)] # 3 THEN Err("Data packet end is wrong.")
    ELSE LET checksum_index == Len(data) - 1
             payload_bytes  == SubSeq(data, 2, checksum_index - 1)
             expected_checksum == calculate_checksum(payload_bytes)
         IN  IF expected_checksum % 255 # data[checksum_index] % 255
             THEN Err("Received wrong checksum.")
             ELSE Ok(payload_bytes)

\* deserialize with the payload slice taken from index 0 instead of 1
deserialize_slice_from_start(data) ==
    IF Len(data) < 4 THEN Err("Data packet has incorrect number of bytes.")
    ELSE IF data[1] # 2 THEN Err("Data packet header is wrong.")
    ELSE IF data[Len(data)] # 3 THEN Err("Data packet end is wrong.")
    ELSE LET checksum_index == Len(data) - 1
             payload_bytes  == SubSeq(data, 1, checksum_index - 1)
             expected_checksum == calculate_checksum(payload_bytes)
         IN  IF expected_checksum # data[checksum_index]
             THEN Err("Received wrong checksum.")
             ELSE Ok(payload_bytes)

deserialize(data) ==
    IF Len(data) < 4 THEN Err("Data packet has incorrect number of bytes.")
    ELSE IF data[1] # 2 THEN Err("Data packet header is wrong.")
    ELSE IF data[Len(data)] # 3 THEN Err("Data packet end is wrong.")
    ELSE LET checksum_index == Len(data) - 1      \* 1-based position of data[len - 2]
             payload_bytes  == SubSeq(data, 2, checksum_index - 1)
             expected_checksum == calculate_checksum(payload_bytes)
         IN  IF expected_checksum # data[checksum_index]
             THEN Err("Received wrong checksum.")
             ELSE Ok(payload_bytes)

-----------------------------------------------------------------------------
(* camera_interface/messaging.rs : CameraCommand *)

OK_RESPONSE == <<6, 0>>

\* "1020F90X/N90S[null][end of text][ack]"
EXPECTED_UNIT_INQUIRY_RESPONSE ==
    <<49, 48, 50, 48, 70, 57, 48, 88, 47, 78, 57, 48, 83, 0, 3, 6>>

Wakeup             == [tag |-> "Wakeup", memory_space |-> 0, address |-> 0, length |-> 0, values |-> <<>>]
UnitInquiry        == [tag |-> "UnitInquiry", memory_space |-> 0, address |-> 0, length |-> 0, values |-> <<>>]
Focus              == [tag |-> "Focus", memory_space |-> 0, address |-> 0, length |-> 0, values |-> <<>>]
Shoot              == [tag |-> "Shoot", memory_space |-> 0, address |-> 0, length |-> 0, values |-> <<>>]
IncreaseBaudRate   == [tag |-> "IncreaseBaudRate", memory_space |-> 0, address |-> 0, length |-> 0, values |-> <<>>]
ReadMemoHolderInfo == [tag |-> "ReadMemoHolderInfo", memory_space |-> 0, address |-> 0, length |-> 0, values |-> <<>>]
ReadMemory(memory_space, address, length) ==
    [tag |-> "ReadMemory", memory_space |-> memory_space, address |-> address,
     length |-> length, values |-> <<>>]
WriteToMemory(address, values) ==
    [tag |-> "WriteToMemory", memory_space |-> 0, address |-> address,
     length |-> 0, values |-> values]

\* `x as u8`
AsU8(x) == x % 256

\* build_read_memory_command with the address low byte first
build_read_memory_command_low_byte_first(memory_space, address, length) ==
    <<1, 32, 128, memory_space, AsU8(address), AsU8(address \div 256), 0, length, 3>>

build_read_memory_command(memory_space, address, length) ==
    <<1, 32, 128, memory_space, AsU8(address \div 256), AsU8(address), 0, length, 3>>

\* build_write_to_memory_command refusing only more than 256 values
build_write_to_memory_command_limit_256(address, values) ==
    IF Len(values) > 256 THEN <<>>
    ELSE <<1, 32, 129, 0, AsU8(address \div 256), AsU8(address), 0, AsU8(Len(values))>>
             \o serialize(values)

\* build_write_to_memory_command with the packet length in the length byte
build_write_to_memory_command_packet_length(address, values) ==
    IF Len(values) > 255 THEN <<>>
    ELSE <<1, 32, 129, 0, AsU8(address \div 256), AsU8(address), 0, AsU8(Len(values) + 3)>>
             \o serialize(values)

\* build_write_to_memory_command without the check of values.len()
build_write_to_memory_command_unchecked(address, values) ==
    <<1, 32, 129, 0, AsU8(address \div 256), AsU8(address), 0, AsU8(Len(values))>>
        \o serialize(values)

build_write_to_memory_command(address, values) ==
    IF Len(values) > 255 THEN <<>>
    ELSE <<1, 32, 129, 0, AsU8(address \div 256), AsU8(address), 0, AsU8(Len(values))>>
             \o serialize(values)

\* The two variants the callers use but the enum lacks: fixed 9-byte frames
\* like Focus and Shoot, each with an op code of its own.
IncreaseBaudRateBytes   == <<1, 32, 135, 5, 0, 0, 0, 0, 3>>
ReadMemoHolderInfoBytes == <<1, 32, 146, 0, 0, 0, 0, 0, 3>>

get_bytes(command) ==
    CASE command.tag = "Wakeup"      -> <<0>>
      [] command.tag = "UnitInquiry" -> <<83, 49, 48, 48, 48, 5>>
      [] command.tag = "Focus"       -> <<1, 32, 134, 0, 0, 0, 0, 0, 3>>
      [] command.tag = "Shoot"       -> <<1, 32, 133, 0, 0, 0, 0, 0, 3>>
      [] command.tag = "ReadMemory"  ->
            build_read_memory_command(command.memory_space, command.address, command.length)
      [] command.tag = "WriteToMemory" ->
            build_write_to_memory_command(command.address, command.values)
      [] command.tag = "IncreaseBaudRate"   -> IncreaseBaudRateBytes
      [] command.tag = "ReadMemoHolderInfo" -> ReadMemoHolderInfoBytes

-----------------------------------------------------------------------------
(* camera_interface.rs : the serial transport.                             *)
(* A connection value carries the line speed, the events so far and the    *)
(* script of the device: which transport call fails (failAt, 0 = none),    *)
(* what each successful read finds (rx, one entry per read) and what       *)
(* clear_input finds buffered (cleared).                                   *)

DEFAULT_BAUD_RATE == 1200

Event(ev, data, n, ok) == [ev |-> ev, data |-> data, n |-> n, ok |-> ok]

\* the Result of an operation together with the connection it leaves
Res(c, ok, err, val) == [c |-> c, ok |-> ok, err |-> err, val |-> val]

Log(c, e) == [c EXCEPT !.trace = Append(@, e)]

serial_read(c, length) ==
    LET k     == c.calls + 1
        avail == IF c.rx = <<>> THEN <<>> ELSE Head(c.rx)
        good  == k # c.failAt /\ Len(avail) >= length       \* read_exact, or timeout
        got   == IF good THEN SubSeq(avail, 1, length) ELSE <<>>
        c1    == [c EXCEPT !.calls = k, !.rx = IF @ = <<>> THEN @ ELSE Tail(@)]
    IN  Res(Log(c1, Event("read", got, length, good)), good,
            IF good THEN "" ELSE "Error reading bytes.", got)

serial_write(c, data) ==
    LET k    == c.calls + 1
        good == k # c.failAt
        c1   == [c EXCEPT !.calls = k]
    IN  Res(Log(c1, Event("write", data, Len(data), good)), good,
            IF good THEN "" ELSE "Error writing given bytes", <<>>)

clear_input(c) ==
    LET k    == c.calls + 1
        good == k # c.failAt
        got  == IF good THEN c.cleared ELSE <<>>
        c1   == [c EXCEPT !.calls = k]
    IN  Res(Log(c1, Event("clear_input", got, 0, good)), good,
            IF good THEN "" ELSE "Error clearing input", got)

set_baud_rate(c, baud_rate) ==
    LET k    == c.calls + 1
        good == k # c.failAt
        c1   == [c EXCEPT !.calls = k, !.baud = IF good THEN baud_rate ELSE @]
    IN  Res(Log(c1, Event("set_baud_rate", <<>>, baud_rate, good)), good,
            IF good THEN "" ELSE "Error setting baud rate", <<>>)

\* thread::sleep(Duration::from_millis(ms))
sleep(c, ms) == Log(c, Event("sleep", <<>>, ms, TRUE))

-----------------------------------------------------------------------------
(* camera_interface.rs : impl CameraInterface for SerialCameraConnection *)

send_command(c, command) == serial_write(c, get_bytes(command))

\* expect_ok_response comparing only the first byte of the answer
expect_ok_response_first_byte_only(c) ==
    LET r == serial_read(c, Len(OK_RESPONSE))
    IN  IF ~r.ok THEN r
        ELSE IF r.val[1] # OK_RESPONSE[1]
             THEN Res(r.c, FALSE, "Error when expecting OK response.", <<>>)
             ELSE Res(r.c, TRUE, "", <<>>)

\* expect_ok_response reading once more when the answer is not OK_RESPONSE
expect_ok_response_retrying(c) ==
    LET r == serial_read(c, Len(OK_RESPONSE))
    IN  IF ~r.ok THEN r
        ELSE IF r.val # OK_RESPONSE
             THEN LET r2 == serial_read(r.c, Len(OK_RESPONSE))
                  IN  IF ~r2.ok THEN r2
                      ELSE IF r2.val # OK_RESPONSE
                           THEN Res(r2.c, FALSE, "Error when expecting OK response.", <<>>)
                           ELSE Res(r2.c, TRUE, "", <<>>)
             ELSE Res(r.c, TRUE, "", <<>>)

expect_ok_response(c) ==
    LET r == serial_read(c, Len(OK_RESPONSE))
    IN  IF ~r.ok THEN r
        ELSE IF r.val # OK_RESPONSE
             THEN Res(r.c, FALSE, "Error when expecting OK response.", <<>>)
             ELSE Res(r.c, TRUE, "", <<>>)

\* start_new_session without the clear_input step
start_new_session_without_clear(c) ==
    LET r1 == send_command(c, Wakeup)
    IN  IF ~r1.ok THEN r1 ELSE
    LET r3 == send_command(sleep(r1.c, 200), UnitInquiry)
    IN  IF ~r3.ok THEN r3 ELSE
    LET r4 == serial_read(r3.c, Len(EXPECTED_UNIT_INQUIRY_RESPONSE))
    IN  IF ~r4.ok THEN r4
        ELSE IF r4.val # EXPECTED_UNIT_INQUIRY_RESPONSE
             THEN Res(r4.c, FALSE, "Unexpected unit inquiry response", <<>>)
             ELSE Res(r4.c, TRUE, "", <<>>)

\* start_new_session comparing only the 13 bytes of identification text
start_new_session_text_only(c) ==
    LET r1 == send_command(c, Wakeup)
    IN  IF ~r1.ok THEN r1 ELSE
    LET r2 == clear_input(sleep(r1.c, 200))
    IN  IF ~r2.ok THEN Res(r2.c, FALSE, r2.err, <<>>) ELSE
    LET r3 == send_command(r2.c, UnitInquiry)
    IN  IF ~r3.ok THEN r3 ELSE
    LET r4 == serial_read(r3.c, Len(EXPECTED_UNIT_INQUIRY_RESPONSE))
    IN  IF ~r4.ok THEN r4
        ELSE IF SubSeq(r4.val, 1, 13) # SubSeq(EXPECTED_UNIT_INQUIRY_RESPONSE, 1, 13)
             THEN Res(r4.c, FALSE, "Unexpected unit inquiry response", <<>>)
             ELSE Res(r4.c, TRUE, "", <<>>)

\* start_new_session with the Result of clear_input dropped (no `?`)
start_new_session_ignoring_clear_error(c) ==
    LET r1 == send_command(c, Wakeup)
    IN  IF ~r1.ok THEN r1 ELSE
    LET r2 == clear_input(sleep(r1.c, 200))
        r3 == send_command(r2.c, UnitInquiry)
    IN  IF ~r3.ok THEN r3 ELSE
    LET r4 == serial_read(r3.c, Len(EXPECTED_UNIT_INQUIRY_RESPONSE))
    IN  IF ~r4.ok THEN r4
        ELSE IF r4.val # EXPECTED_UNIT_INQUIRY_RESPONSE
             THEN Res(r4.c, FALSE, "Unexpected unit inquiry response", <<>>)
             ELSE Res(r4.c, TRUE, "", <<>>)

\* start_new_session refusing to go on when clear_input discarded any bytes
start_new_session_refusing_buffered_bytes(c) ==
    LET r1 == send_command(c, Wakeup)
    IN  IF ~r1.ok THEN r1 ELSE
    LET r2 == clear_input(sleep(r1.c, 200))
    IN  IF ~r2.ok THEN Res(r2.c, FALSE, r2.err, <<>>) ELSE
        IF r2.val # <<>> THEN Res(r2.c, FALSE, "Unexpected bytes in the input buffer", <<>>) ELSE
    LET r3 == send_command(r2.c, UnitInquiry)
    IN  IF ~r3.ok THEN r3 ELSE
    LET r4 == serial_read(r3.c, Len(EXPECTED_UNIT_INQUIRY_RESPONSE))
    IN  IF ~r4.ok THEN r4
        ELSE IF r4.val # EXPECTED_UNIT_INQUIRY_RESPONSE
             THEN Res(r4.c, FALSE, "Unexpected unit inquiry response", <<>>)
             ELSE Res(r4.c, TRUE, "", <<>>)

start_new_session(c) ==
    LET r1 == send_command(c, Wakeup)
    IN  IF ~r1.ok THEN r1 ELSE
    LET r2 == clear_input(sleep(r1.c, 200))
    IN  IF ~r2.ok THEN Res(r2.c, FALSE, r2.err, <<>>) ELSE
    LET r3 == send_command(r2.c, UnitInquiry)
    IN  IF ~r3.ok THEN r3 ELSE
    LET r4 == serial_read(r3.c, Len(EXPECTED_UNIT_INQUIRY_RESPONSE))
    IN  IF ~r4.ok THEN r4
        ELSE IF r4.val # EXPECTED_UNIT_INQUIRY_RESPONSE
             THEN Res(r4.c, FALSE, "Unexpected unit inquiry response", <<>>)
             ELSE Res(r4.c, TRUE, "", <<>>)

\* upgrade_to_fast_session switching the speed before it awaits the OK response
upgrade_switching_before_ok(c) ==
    LET r1 == send_command(c, IncreaseBaudRate)
    IN  IF ~r1.ok THEN r1 ELSE
    LET r3 == set_baud_rate(sleep(r1.c, 200), 9600)
    IN  IF ~r3.ok THEN r3 ELSE
    expect_ok_response(r3.c)

\* upgrade_to_fast_session with the Result of expect_ok_response dropped (no `?`)
upgrade_ignoring_ok_response(c) ==
    LET r1 == send_command(c, IncreaseBaudRate)
    IN  IF ~r1.ok THEN r1 ELSE
    LET r2 == expect_ok_response(r1.c)
    IN  set_baud_rate(sleep(r2.c, 200), 9600)

upgrade_to_fast_session(c) ==
    LET r1 == send_command(c, IncreaseBaudRate)
    IN  IF ~r1.ok THEN r1 ELSE
    LET r2 == expect_ok_response(r1.c)
    IN  IF ~r2.ok THEN r2 ELSE
    LET r3 == set_baud_rate(sleep(r2.c, 200), 9600)
    IN  r3

\* end_fast_session returning after the echo, the speed left as it is
end_fast_session_without_restore(c) ==
    LET end_transmission_message == <<4, 4>>
        r1 == serial_write(c, end_transmission_message)
    IN  IF ~r1.ok THEN r1 ELSE
    LET r2 == serial_read(r1.c, Len(end_transmission_message))
    IN  IF ~r2.ok THEN r2
        ELSE IF r2.val # end_transmission_message
             THEN Res(r2.c, FALSE, "Error when expecting EOT response.", <<>>)
             ELSE Res(sleep(r2.c, 200), TRUE, "", <<>>)

\* end_fast_session restoring the speed whatever the echo was
end_fast_session_ignoring_echo(c) ==
    LET end_transmission_message == <<4, 4>>
        r1 == serial_write(c, end_transmission_message)
    IN  IF ~r1.ok THEN r1 ELSE
    LET r2 == serial_read(r1.c, Len(end_transmission_message))
    IN  IF ~r2.ok THEN r2
        ELSE set_baud_rate(sleep(r2.c, 200), DEFAULT_BAUD_RATE)

end_fast_session(c) ==
    LET end_transmission_message == <<4, 4>>
        r1 == serial_write(c, end_transmission_message)
    IN  IF ~r1.ok THEN r1 ELSE
    LET r2 == serial_read(r1.c, Len(end_transmission_message))
    IN  IF ~r2.ok THEN r2
        ELSE IF r2.val # end_transmission_message
             THEN Res(r2.c, FALSE, "Error when expecting EOT response.", <<>>)
             ELSE set_baud_rate(sleep(r2.c, 200), DEFAULT_BAUD_RATE)

\* expect_data_packet counting one byte too many around the payload
expect_data_packet_one_byte_more(c, payload_length) ==
    LET expected_length == payload_length + 4
        r == serial_read(c, expected_length)
    IN  IF ~r.ok THEN r
        ELSE LET d == deserialize(r.val)
             IN  IF d.ok THEN Res(r.c, TRUE, "", d.val)
                 ELSE Res(r.c, FALSE, d.val, <<>>)

\* expect_data_packet taking a framed packet without payload for a payload
\* of no bytes
expect_data_packet_empty_payload_allowed(c, payload_length) ==
    LET expected_length == payload_length + 3
        r == serial_read(c, expected_length)
    IN  IF ~r.ok THEN r
        ELSE IF r.val = <<2, 0, 3>> THEN Res(r.c, TRUE, "", <<>>)
        ELSE LET d == deserialize(r.val)
             IN  IF d.ok THEN Res(r.c, TRUE, "", d.val)
                 ELSE Res(r.c, FALSE, d.val, <<>>)

expect_data_packet(c, payload_length) ==
    LET expected_length == payload_length + 3
        r == serial_read(c, expected_length)
    IN  IF ~r.ok THEN r
        ELSE LET d == deserialize(r.val)
             IN  IF d.ok THEN Res(r.c, TRUE, "", d.val)
                 ELSE Res(r.c, FALSE, d.val, <<>>)

-----------------------------------------------------------------------------
(* cli_commands.rs : one command per run, each on a connection of its own. *)
(* serial_device stands for the device behind the path: whether it opens,  *)
(* and the script of the camera attached to it.                            *)

\* SerialConnection::new: the port is opened at the default speed
SerialConnection_new(serial_device) ==
    LET c == [baud |-> DEFAULT_BAUD_RATE, trace |-> <<>>, calls |-> 0,
              failAt |-> serial_device.failAt, rx |-> serial_device.rx,
              cleared |-> serial_device.cleared]
    IN  Res(Log(c, Event("open", <<>>, DEFAULT_BAUD_RATE, serial_device.opens)),
            serial_device.opens,
            IF serial_device.opens THEN "" ELSE "Could not open the serial device", <<>>)

\* history: the CameraInterface method fn has returned r to the run
Call(fn, r) == [r EXCEPT !.c = Log(@, Event(fn, <<>>, 0, r.ok))]

\* println!
println(c, bytes) == Log(c, Event("println", bytes, 0, TRUE))

\* read_memory_in_new_session with the Result of upgrade_to_fast_session dropped
read_memory_ignoring_upgrade_error(serial_device, address, length, memory_space, use_fast_session) ==
    LET r0 == SerialConnection_new(serial_device)
    IN  IF ~r0.ok THEN r0 ELSE
    LET r1 == Call("start_new_session", start_new_session(r0.c))
    IN  IF ~r1.ok THEN r1 ELSE
    LET r2 == IF use_fast_session
              THEN Call("upgrade_to_fast_session", upgrade_to_fast_session(r1.c))
              ELSE r1
        r3 == send_command(r2.c, ReadMemory(memory_space, address, length))
    IN  IF ~r3.ok THEN r3 ELSE
    LET r4 == expect_data_packet(r3.c, length)
    IN  IF ~r4.ok THEN r4 ELSE
    LET c5 == println(r4.c, r4.val)
        r6 == IF use_fast_session
              THEN Call("end_fast_session", end_fast_session(c5))
              ELSE Res(c5, TRUE, "", <<>>)
    IN  IF ~r6.ok THEN r6 ELSE Res(r6.c, TRUE, "", <<>>)

\* read_memory_in_new_session ending the fast session whether or not one was begun
read_memory_always_ending_fast(serial_device, address, length, memory_space, use_fast_session) ==
    LET r0 == SerialConnection_new(serial_device)
    IN  IF ~r0.ok THEN r0 ELSE
    LET r1 == Call("start_new_session", start_new_session(r0.c))
    IN  IF ~r1.ok THEN r1 ELSE
    LET r2 == IF use_fast_session
              THEN Call("upgrade_to_fast_session", upgrade_to_fast_session(r1.c))
              ELSE r1
    IN  IF ~r2.ok THEN r2 ELSE
    LET r3 == send_command(r2.c, ReadMemory(memory_space, address, length))
    IN  IF ~r3.ok THEN r3 ELSE
    LET r4 == expect_data_packet(r3.c, length)
    IN  IF ~r4.ok THEN r4 ELSE
    LET c5 == println(r4.c, r4.val)
        r6 == Call("end_fast_session", end_fast_session(c5))
    IN  IF ~r6.ok THEN r6 ELSE Res(r6.c, TRUE, "", <<>>)

\* read_memory_in_new_session ending the fast session before it returns the
\* error of the command or of its response
read_memory_restoring_speed_on_error(serial_device, address, length, memory_space, use_fast_session) ==
    LET r0 == SerialConnection_new(serial_device)
    IN  IF ~r0.ok THEN r0 ELSE
    LET r1 == Call("start_new_session", start_new_session(r0.c))
    IN  IF ~r1.ok THEN r1 ELSE
    LET r2 == IF use_fast_session
              THEN Call("upgrade_to_fast_session", upgrade_to_fast_session(r1.c))
              ELSE r1
    IN  IF ~r2.ok THEN r2 ELSE
    LET r3 == send_command(r2.c, ReadMemory(memory_space, address, length))
        r4 == IF r3.ok THEN expect_data_packet(r3.c, length) ELSE r3
    IN  IF ~r4.ok
        THEN IF use_fast_session
             THEN Res(Call("end_fast_session", end_fast_session(r4.c)).c, FALSE, r4.err, <<>>)
             ELSE r4
        ELSE
    LET c5 == println(r4.c, r4.val)
        r6 == IF use_fast_session
              THEN Call("end_fast_session", end_fast_session(c5))
              ELSE Res(c5, TRUE, "", <<>>)
    IN  IF ~r6.ok THEN r6 ELSE Res(r6.c, TRUE, "", <<>>)

read_memory_in_new_session(serial_device, address, length, memory_space, use_fast_session) ==
    LET r0 == SerialConnection_new(serial_device)
    IN  IF ~r0.ok THEN r0 ELSE
    LET r1 == Call("start_new_session", start_new_session(r0.c))
    IN  IF ~r1.ok THEN r1 ELSE
    LET r2 == IF use_fast_session
              THEN Call("upgrade_to_fast_session", upgrade_to_fast_session(r1.c))
              ELSE r1
    IN  IF ~r2.ok THEN r2 ELSE
    LET r3 == send_command(r2.c, ReadMemory(memory_space, address, length))
    IN  IF ~r3.ok THEN r3 ELSE
    LET r4 == expect_data_packet(r3.c, length)
    IN  IF ~r4.ok THEN r4 ELSE
    LET c5 == println(r4.c, r4.val)
        r6 == IF use_fast_session
              THEN Call("end_fast_session", end_fast_session(c5))
              ELSE Res(c5, TRUE, "", <<>>)
    IN  IF ~r6.ok THEN r6 ELSE Res(r6.c, TRUE, "", <<>>)

\* the connection before it is opened: what an early return leaves
Unopened(serial_device) ==
    [baud |-> DEFAULT_BAUD_RATE, trace |-> <<>>, calls |-> 0,
     failAt |-> serial_device.failAt, rx |-> serial_device.rx,
     cleared |-> serial_device.cleared]

\* write_memory_in_new_session going on to end the session without
\* awaiting the OK response to the write
write_memory_without_expect_ok(serial_device, address, values, use_fast_session) ==
    IF Len(values) > 255
    THEN Res(Unopened(serial_device), FALSE, "Too many values given.", <<>>) ELSE
    LET r0 == SerialConnection_new(serial_device)
    IN  IF ~r0.ok THEN r0 ELSE
    LET r1 == Call("start_new_session", start_new_session(r0.c))
    IN  IF ~r1.ok THEN r1 ELSE
    LET r2 == IF use_fast_session
              THEN Call("upgrade_to_fast_session", upgrade_to_fast_session(r1.c))
              ELSE r1
    IN  IF ~r2.ok THEN r2 ELSE
    LET r3 == send_command(r2.c, WriteToMemory(address, values))
    IN  IF ~r3.ok THEN r3 ELSE
    LET c5 == println(r3.c, <<>>)
        r6 == IF use_fast_session
              THEN Call("end_fast_session", end_fast_session(c5))
              ELSE Res(c5, TRUE, "", <<>>)
    IN  IF ~r6.ok THEN r6 ELSE Res(r6.c, TRUE, "", <<>>)

\* write_memory_in_new_session counting the values once the session is open
write_memory_checking_after_open(serial_device, address, values, use_fast_session) ==
    LET r0 == SerialConnection_new(serial_device)
    IN  IF ~r0.ok THEN r0 ELSE
    LET r1 == Call("start_new_session", start_new_session(r0.c))
    IN  IF ~r1.ok THEN r1 ELSE
    IF Len(values) > 255
    THEN Res(r1.c, FALSE, "Too many values given.", <<>>) ELSE
    LET r2 == IF use_fast_session
              THEN Call("upgrade_to_fast_session", upgrade_to_fast_session(r1.c))
              ELSE r1
    IN  IF ~r2.ok THEN r2 ELSE
    LET r3 == send_command(r2.c, WriteToMemory(address, values))
    IN  IF ~r3.ok THEN r3 ELSE
    LET r4 == expect_ok_response(r3.c)
    IN  IF ~r4.ok THEN r4 ELSE
    LET c5 == println(r4.c, <<>>)
        r6 == IF use_fast_session
              THEN Call("end_fast_session", end_fast_session(c5))
              ELSE Res(c5, TRUE, "", <<>>)
    IN  IF ~r6.ok THEN r6 ELSE Res(r6.c, TRUE, "", <<>>)

write_memory_in_new_session(serial_device, address, values, use_fast_session) ==
    IF Len(values) > 255
    THEN Res(Unopened(serial_device), FALSE, "Too many values given.", <<>>) ELSE
    LET r0 == SerialConnection_new(serial_device)
    IN  IF ~r0.ok THEN r0 ELSE
    LET r1 == Call("start_new_session", start_new_session(r0.c))
    IN  IF ~r1.ok THEN r1 ELSE
    LET r2 == IF use_fast_session
              THEN Call("upgrade_to_fast_session", upgrade_to_fast_session(r1.c))
              ELSE r1
    IN  IF ~r2.ok THEN r2 ELSE
    LET r3 == send_command(r2.c, WriteToMemory(address, values))
    IN  IF ~r3.ok THEN r3 ELSE
    LET r4 == expect_ok_response(r3.c)
    IN  IF ~r4.ok THEN r4 ELSE
    LET c5 == println(r4.c, <<>>)
        r6 == IF use_fast_session
              THEN Call("end_fast_session", end_fast_session(c5))
              ELSE Res(c5, TRUE, "", <<>>)
    IN  IF ~r6.ok THEN r6 ELSE Res(r6.c, TRUE, "", <<>>)

autofocus_in_new_session(serial_device) ==
    LET r0 == SerialConnection_new(serial_device)
    IN  IF ~r0.ok THEN r0 ELSE
    LET r1 == Call("start_new_session", start_new_session(r0.c))
    IN  IF ~r1.ok THEN r1 ELSE
    LET r2 == send_command(r1.c, Focus)
    IN  IF ~r2.ok THEN r2 ELSE
    LET r3 == expect_ok_response(r2.c)
    IN  IF ~r3.ok THEN r3 ELSE Res(r3.c, TRUE, "", <<>>)

release_shutter_in_new_session(serial_device) ==
    LET r0 == SerialConnection_new(serial_device)
    IN  IF ~r0.ok THEN r0 ELSE
    LET r1 == Call("start_new_session", start_new_session(r0.c))
    IN  IF ~r1.ok THEN r1 ELSE
    LET r2 == send_command(r1.c, Shoot)
    IN  IF ~r2.ok THEN r2 ELSE
    LET r3 == expect_ok_response(r2.c)
    IN  IF ~r3.ok THEN r3 ELSE Res(r3.c, TRUE, "", <<>>)

read_and_print_memo_holder_info_in_new_session(serial_device) ==
    LET r0 == SerialConnection_new(serial_device)
    IN  IF ~r0.ok THEN r0 ELSE
    LET r1 == Call("start_new_session", start_new_session(r0.c))
    IN  IF ~r1.ok THEN r1 ELSE
    LET r2 == send_command(r1.c, ReadMemoHolderInfo)
    IN  IF ~r2.ok THEN r2 ELSE
    LET r3 == expect_data_packet(r2.c, 4)
    IN  IF ~r3.ok THEN r3 ELSE Res(println(r3.c, r3.val), TRUE, "", <<>>)

-----------------------------------------------------------------------------
(* shooting_data.rs : decoders of what the camera's memory holds.  The     *)
(* camera is the connection c behind the CameraInterface.                  *)

\* indexing outside the vector: the thread panics, nothing is returned
Panic(text) == [ok |-> FALSE, val |-> "panic: " \o text]

\* read_little_endian_u16 that only asks start_index to be inside the vector
read_little_endian_u16_start_inside(bytes, start_index) ==
    IF start_index >= Len(bytes)
    THEN Err("Not enough bytes to read a u16.")
    ELSE IF start_index + 2 > Len(bytes)
    THEN Panic("range end index out of range for slice")
    ELSE Ok(bytes[start_index + 1] + 256 * bytes[start_index + 2])

\* start_index counts from 0.  The slice bytes[start_index .. start_index+2]
\* is bounds-checked; its 2 bytes are copied into a 2-byte array (written
\* `[0u8, 2]`, which has 2 elements) and read low byte first.
read_little_endian_u16(bytes, start_index) ==
    IF start_index + 1 >= Len(bytes)
    THEN Err("Not enough bytes to read a u16.")
    ELSE IF start_index + 2 > Len(bytes)
    THEN Panic("range end index out of range for slice")
    ELSE Ok(bytes[start_index + 1] + 256 * bytes[start_index + 2])

\* (encoded >> shift) & 0x0F
Nibble(encoded, shift) == (encoded \div 2 ^ shift) % 16

\* read_4_digit_bcd taking the most significant nibble for the units
read_4_digit_bcd_most_significant_first(encoded) ==
    LET digits == <<Nibble(encoded, 12), Nibble(encoded, 8),
                    Nibble(encoded, 4), Nibble(encoded, 0)>>
    IN  IF \E i \in 1 .. 4 : digits[i] > 9
        THEN Err("Invalid nibble value")
        ELSE Ok((digits[1] + digits[2] * 10 + digits[3] * 100 + digits[4] * 1000) % 65536)

read_4_digit_bcd(encoded) ==
    LET digits == <<Nibble(encoded, 0), Nibble(encoded, 4),
                    Nibble(encoded, 8), Nibble(encoded, 12)>>
    IN  IF \E i \in 1 .. 4 : digits[i] > 9
        THEN Err("Invalid nibble value")
        ELSE Ok((digits[1] + digits[2] * 10 + digits[3] * 100 + digits[4] * 1000) % 65536)

\* `?` on a decoder's Result inside a function that holds the connection c
Decoded(c, x) == IF x.ok THEN Res(c, TRUE, "", x.val) ELSE Res(c, FALSE, x.val, <<>>)

get_ring_buffer_addresses(c) ==
    LET r1 == send_command(c, ReadMemory(0, 64768, 4))
    IN  IF ~r1.ok THEN r1 ELSE
    LET r2 == expect_data_packet(r1.c, 4)
    IN  IF ~r2.ok THEN r2 ELSE
    LET start == read_little_endian_u16(r2.val, 0)
    IN  IF ~start.ok THEN Decoded(r2.c, start) ELSE
    LET end == read_little_endian_u16(r2.val, 2)
    IN  IF ~end.ok THEN Decoded(r2.c, end)
        ELSE Res(r2.c, TRUE, "", [start |-> start.val, end |-> end.val])

\* get_memo_holder_addresses with current and start taken from each other's bytes
get_memo_holder_addresses_in_struct_order(c) ==
    LET r1 == send_command(c, ReadMemory(0, 64834, 6))
    IN  IF ~r1.ok THEN r1 ELSE
    LET r2 == expect_data_packet(r1.c, 6)
    IN  IF ~r2.ok THEN r2 ELSE
    LET start == read_little_endian_u16(r2.val, 0)
    IN  IF ~start.ok THEN Decoded(r2.c, start) ELSE
    LET current_roll_start == read_little_endian_u16(r2.val, 2)
    IN  IF ~current_roll_start.ok THEN Decoded(r2.c, current_roll_start) ELSE
    LET current == read_little_endian_u16(r2.val, 4)
    IN  IF ~current.ok THEN Decoded(r2.c, current)
        ELSE Res(r2.c, TRUE, "",
                 [start |-> start.val, current_roll_start |-> current_roll_start.val,
                  current |-> current.val])

get_memo_holder_addresses(c) ==
    LET r1 == send_command(c, ReadMemory(0, 64834, 6))
    IN  IF ~r1.ok THEN r1 ELSE
    LET r2 == expect_data_packet(r1.c, 6)
    IN  IF ~r2.ok THEN r2 ELSE
    LET current == read_little_endian_u16(r2.val, 0)
    IN  IF ~current.ok THEN Decoded(r2.c, current) ELSE
    LET start == read_little_endian_u16(r2.val, 2)
    IN  IF ~start.ok THEN Decoded(r2.c, start) ELSE
    LET current_roll_start == read_little_endian_u16(r2.val, 4)
    IN  IF ~current_roll_start.ok THEN Decoded(r2.c, current_roll_start)
        ELSE Res(r2.c, TRUE, "",
                 [start |-> start.val, current_roll_start |-> current_roll_start.val,
                  current |-> current.val])

MEMO_HOLDER_ENABLED_FLAG == 64

\* value & flag, for a flag of one bit
BitAnd(value, flag) == ((value \div flag) % 2) * flag

\* get_memo_holder_setting matching the value before looking at the flag
get_memo_holder_setting_without_flag(c) ==
    LET r1 == send_command(c, ReadMemory(0, 64832, 1))
    IN  IF ~r1.ok THEN r1 ELSE
    LET r2 == expect_data_packet(r1.c, 1)
    IN  IF ~r2.ok THEN r2 ELSE
    IF r2.val = <<>> THEN Res(r2.c, FALSE, "Could not get the memory value", <<>>) ELSE
    LET value == r2.val[1]
    IN  CASE value = 69 -> Res(r2.c, TRUE, "", "Minimum")
          [] value = 78 -> Res(r2.c, TRUE, "", "Intermediate")
          [] value = 95 -> Res(r2.c, TRUE, "", "Full")
          [] OTHER -> Res(r2.c, FALSE, "Unspecified memo holder setting value", <<>>)

get_memo_holder_setting(c) ==
    LET r1 == send_command(c, ReadMemory(0, 64832, 1))
    IN  IF ~r1.ok THEN r1 ELSE
    LET r2 == expect_data_packet(r1.c, 1)
    IN  IF ~r2.ok THEN r2 ELSE
    IF r2.val = <<>> THEN Res(r2.c, FALSE, "Could not get the memory value", <<>>) ELSE
    LET value == r2.val[1]
    IN  IF BitAnd(value, MEMO_HOLDER_ENABLED_FLAG) = 0 THEN Res(r2.c, TRUE, "", "DoNotStore") ELSE
        CASE value = 69 -> Res(r2.c, TRUE, "", "Minimum")
          [] value = 78 -> Res(r2.c, TRUE, "", "Intermediate")
          [] value = 95 -> Res(r2.c, TRUE, "", "Full")
          [] OTHER -> Res(r2.c, FALSE, "Unspecified memo holder setting value", <<>>)

\* get_memo_holder_info returning the raw roll number
get_memo_holder_info_without_bcd(c) ==
    LET r1 == send_command(c, ReadMemoHolderInfo)
    IN  IF ~r1.ok THEN r1 ELSE
    LET r2 == expect_data_packet(r1.c, 4)
    IN  IF ~r2.ok THEN r2 ELSE
    LET bytes_to_read == read_little_endian_u16(r2.val, 2)
    IN  IF ~bytes_to_read.ok THEN Decoded(r2.c, bytes_to_read) ELSE
    LET roll_id_raw == read_little_endian_u16(r2.val, 0)
    IN  IF ~roll_id_raw.ok THEN Decoded(r2.c, roll_id_raw)
        ELSE Res(r2.c, TRUE, "",
                 [roll_id |-> roll_id_raw.val, bytes_to_read |-> bytes_to_read.val])

get_memo_holder_info(c) ==
    LET r1 == send_command(c, ReadMemoHolderInfo)
    IN  IF ~r1.ok THEN r1 ELSE
    LET r2 == expect_data_packet(r1.c, 4)
    IN  IF ~r2.ok THEN r2 ELSE
    LET bytes_to_read == read_little_endian_u16(r2.val, 2)
    IN  IF ~bytes_to_read.ok THEN Decoded(r2.c, bytes_to_read) ELSE
    LET roll_id_raw == read_little_endian_u16(r2.val, 0)
    IN  IF ~roll_id_raw.ok THEN Decoded(r2.c, roll_id_raw) ELSE
    LET roll_id == read_4_digit_bcd(roll_id_raw.val)
    IN  IF ~roll_id.ok THEN Decoded(r2.c, roll_id)
        ELSE Res(r2.c, TRUE, "",
                 [roll_id |-> roll_id.val, bytes_to_read |-> bytes_to_read.val])

-----------------------------------------------------------------------------
(* The codec specification: a payload is drawn, framed and parsed back *)

NoResult == [ok |-> FALSE, val |-> "not run"]

SessionIdle ==
    /\ baud = 0
    /\ trace = <<>>
    /\ outcome = [fn |-> "off"]

InitCodec ==
    /\ payload \in Payloads
    /\ framed = <<>>
    /\ decoded = NoResult
    /\ stage = "input"
    /\ SessionIdle

Serialize ==
    /\ stage = "input"
    /\ framed' = serialize(payload)
    /\ stage' = "serialized"
    /\ UNCHANGED <<payload, decoded, baud, trace, outcome>>

Deserialize ==
    /\ stage = "serialized"
    /\ decoded' = deserialize(framed)
    /\ stage' = "deserialized"
    /\ UNCHANGED <<payload, framed, baud, trace, outcome>>

\* the bytes drawn reach deserialize as they are, as what a read returned
DeserializeReceived ==
    /\ stage = "input"
    /\ framed' = payload
    /\ decoded' = deserialize(payload)
    /\ stage' = "received"
    /\ UNCHANGED <<payload, baud, trace, outcome>>

\* values a byte of a packet is replaced by
ReplacementBytes == PayloadBytes \cup {1, 4}

\* a packet that deserialize accepts reaches it with one byte replaced by a
\* different one
DeserializeChanged ==
    /\ stage = "serialized"
    /\ deserialize(framed).ok
    /\ \E i \in 1 .. Len(framed), b \in ReplacementBytes :
          /\ b # framed[i]
          /\ framed' = [framed EXCEPT ![i] = b]
          /\ decoded' = deserialize(framed')
    /\ stage' = "changed"
    /\ UNCHANGED <<payload, baud, trace, outcome>>

NextCodec == Serialize \/ Deserialize \/ DeserializeReceived \/ DeserializeChanged

SpecCodec == InitCodec /\ [][NextCodec]_vars

-----------------------------------------------------------------------------
(* The decoder specification: the arguments of one call of a pure decoder  *)
(* of shooting_data.rs are drawn, and the call is made.                    *)

\* largest start_index read_little_endian_u16 is called with
MaxStartIndex == 4

\* vectors of the decoder's tests
TestVectors == {<<18, 52, 86, 120>>, <<18, 52>>, <<17>>, <<170, 187, 204>>}

DecoderCall(fn, encoded, start_index) ==
    [fn |-> fn, encoded |-> encoded, start_index |-> start_index]

InitDecoders ==
    /\ framed = <<>>
    /\ decoded = NoResult
    /\ stage = "input"
    /\ baud = 0
    /\ trace = <<>>
    /\ \/ /\ payload = <<>>
          /\ outcome \in {DecoderCall("read_4_digit_bcd", encoded, 0) : encoded \in 0 .. 65535}
       \/ /\ payload \in SeqsUpTo(PayloadBytes, MaxPayloadLen) \cup TestVectors
          /\ outcome \in {DecoderCall("read_little_endian_u16", 0, start_index) :
                              start_index \in 0 .. MaxStartIndex}

ReadLittleEndianU16 ==
    /\ stage = "input"
    /\ outcome.fn = "read_little_endian_u16"
    /\ decoded' = read_little_endian_u16(payload, outcome.start_index)
    /\ stage' = "decoded"
    /\ UNCHANGED <<payload, framed, baud, trace, outcome>>

Read4DigitBcd ==
    /\ stage = "input"
    /\ outcome.fn = "read_4_digit_bcd"
    /\ decoded' = read_4_digit_bcd(outcome.encoded)
    /\ stage' = "decoded"
    /\ UNCHANGED <<payload, framed, baud, trace, outcome>>

NextDecoders == ReadLittleEndianU16 \/ Read4DigitBcd

SpecDecoders == InitDecoders /\ [][NextDecoders]_vars

-----------------------------------------------------------------------------
(* The session specification: each action runs one operation to its return *)
(* against a connection whose device script is chosen freely.              *)

\* transport calls of the longest run (a fast read): the script may fail any one
MaxCalls == 12

FailPoints == 0 .. MaxCalls

\* what clear_input may find buffered: nothing, or bytes of an awake camera
ClearedSamples == {<<>>, <<0>>, <<6, 0>>}

\* amounts by which one byte of a response is made to differ
MismatchDeltas == {1, 128, 255}

InquiryResponses ==
    {EXPECTED_UNIT_INQUIRY_RESPONSE}
        \cup {[EXPECTED_UNIT_INQUIRY_RESPONSE EXCEPT ![i] = (@ + d) % 256] :
                  i \in 1 .. Len(EXPECTED_UNIT_INQUIRY_RESPONSE), d \in MismatchDeltas}
        \cup {[i \in 1 .. Len(EXPECTED_UNIT_INQUIRY_RESPONSE) |-> 1]}

ResponseBytes == {0, 4, 6}

TwoByteResponses ==
    {<<a, b>> : a \in ResponseBytes, b \in ResponseBytes} \cup {<<16, 32>>, <<1, 1>>}

Connection(speed, failAt, rx, cleared) ==
    [baud |-> speed, trace |-> <<>>, calls |-> 0,
     failAt |-> failAt, rx |-> rx, cleared |-> cleared]

CodecOff ==
    /\ payload = <<>>
    /\ framed = <<>>
    /\ decoded = NoResult
    /\ stage = "off"

\* lengths a read run asks for: the short ones and the largest a u8 holds
MaxReadLen == 2

ReadLengths == (0 .. MaxReadLen) \cup {255}

\* bytes a device fills a payload with
FillBytes == {0, 17, 255}

\* what the device may answer to a request for n payload bytes: well-formed
\* packets, one with a wrong checksum and one with a wrong start byte
PacketResponses(n) ==
    LET zeros == serialize([i \in 1 .. n |-> 0])
    IN  {serialize([i \in 1 .. n |-> b]) : b \in FillBytes}
            \cup {[zeros EXCEPT ![n + 2] = (@ + 1) % 256], [zeros EXCEPT ![1] = 1]}

\* values a write run is given: none, the two of the encoder's tests, the
\* most a command can carry, and one more than that
WriteValues ==
    {<<>>, <<12, 13, 14>>, <<250, 16>>, [i \in 1 .. 255 |-> 255], [i \in 1 .. 256 |-> 0]}

\* where a run reads or writes: the memo holder setting in space 0, and the
\* address and space of the encoder's test
Targets == {[memory_space |-> 0, address |-> 64832],
            [memory_space |-> 161, address |-> 45763]}

\* answers of the device in a command run
RunInquiryResponses == {EXPECTED_UNIT_INQUIRY_RESPONSE, [i \in 1 .. 16 |-> 1]}
RunOkResponses      == {OK_RESPONSE, <<6, 6>>}
RunEotResponses     == {<<4, 4>>, <<1, 1>>}

Device(opens, failAt, rx) ==
    [opens |-> opens, failAt |-> failAt, rx |-> rx, cleared |-> <<0>>]

\* one entry when the run uses the fast session, none otherwise
IfFast(fast, resp) == IF fast THEN <<resp>> ELSE <<>>

\* the answers to choose among for a read only the fast session makes
OnlyFast(fast, responses) == IF fast THEN responses ELSE {<<>>}

\* a device that does not open is asked nothing: its script does not matter
FailPointsOf(opens) == IF opens THEN FailPoints ELSE {0}

NoOutcome ==
    [fn |-> "none", cmd |-> Wakeup, fast |-> FALSE, baud0 |-> DEFAULT_BAUD_RATE,
     ok |-> FALSE, err |-> "", val |-> <<>>]

Init ==
    /\ CodecOff
    /\ baud = DEFAULT_BAUD_RATE
    /\ trace = <<>>
    /\ outcome = NoOutcome

\* the operation fn has returned r, having started at line speed baud0
Finish(fn, cmd, fast, baud0, r) ==
    /\ baud' = r.c.baud
    /\ trace' = r.c.trace
    /\ outcome' = [fn |-> fn, cmd |-> cmd, fast |-> fast, baud0 |-> baud0,
                   ok |-> r.ok, err |-> r.err, val |-> r.val]
    /\ UNCHANGED <<payload, framed, decoded, stage>>

\* no operation is running: the caller holds a connection and no Result
Idle == outcome.fn = "none"

StartNewSession ==
    /\ Idle
    /\ \E failAt \in FailPoints, cleared \in ClearedSamples, inq \in InquiryResponses :
          Finish("start_new_session", Wakeup, FALSE, baud,
                 start_new_session(Connection(baud, failAt, <<inq>>, cleared)))

UpgradeToFastSession ==
    /\ Idle
    /\ \E failAt \in FailPoints, resp \in TwoByteResponses :
          Finish("upgrade_to_fast_session", IncreaseBaudRate, TRUE, baud,
                 upgrade_to_fast_session(Connection(baud, failAt, <<resp>>, <<>>)))

EndFastSession ==
    /\ Idle
    /\ \E failAt \in FailPoints, resp \in TwoByteResponses :
          Finish("end_fast_session", Wakeup, TRUE, baud,
                 end_fast_session(Connection(baud, failAt, <<resp>>, <<>>)))

\* where a command handed to send_command points: the targets of the runs,
\* the address of the write encoder's test, and the ends of both ranges
CommandTargets ==
    Targets \cup {[memory_space |-> 0, address |-> 0],
                  [memory_space |-> 1, address |-> 255],
                  [memory_space |-> 2, address |-> 256],
                  [memory_space |-> 0, address |-> 43707],
                  [memory_space |-> 255, address |-> 65535]}

\* commands a caller of the trait hands to send_command
Commands ==
    {Wakeup, UnitInquiry, Focus, Shoot, IncreaseBaudRate, ReadMemoHolderInfo}
        \cup {ReadMemory(at.memory_space, at.address, length) :
                  at \in CommandTargets, length \in ReadLengths}
        \cup {WriteToMemory(at.address, values) :
                  at \in CommandTargets, values \in WriteValues}

\* what the device may answer when 2 bytes are awaited: nothing, one byte,
\* two bytes, or more than two
OkResponses == TwoByteResponses \cup {<<>>, <<6>>, <<6, 0, 0>>}

\* what the device may answer when a packet of n payload bytes is awaited:
\* nothing, a packet, or a packet followed by one more byte
DataPacketResponses(n) ==
    PacketResponses(n) \cup {<<>>} \cup {Append(pkt, 0) : pkt \in PacketResponses(n)}

\* a packet of the payload asked for, the same with a wrong checksum, or nothing
AnswersWith(payloads) ==
    {serialize(p) : p \in payloads}
        \cup {[serialize(p) EXCEPT ![Len(p) + 2] = (@ + 1) % 255] : p \in payloads}
        \cup {<<>>}

\* what the 6 bytes at 0xFD42 may hold
AddressPayloads ==
    {<<152, 118, 171, 205, 18, 52>>, <<0, 0, 0, 0, 0, 0>>, <<1, 0, 0, 1, 255, 0>>,
     <<255, 255, 254, 255, 255, 254>>}

\* bytes of a roll number: valid and invalid nibbles in either half
RollBytes == {0, 9, 10, 19, 55, 144, 153, 160, 255}

\* what the camera may answer to ReadMemoHolderInfo
InfoPayloads ==
    {<<lo, hi>> \o count : lo \in RollBytes, hi \in RollBytes,
                           count \in {<<205, 171>>, <<0, 0>>, <<255, 1>>}}

GetMemoHolderSetting ==
    /\ Idle
    /\ \E failAt \in FailPoints, resp \in AnswersWith({<<b>> : b \in 0 .. 255}) :
          Finish("get_memo_holder_setting", ReadMemory(0, 64832, 1), FALSE, baud,
                 get_memo_holder_setting(Connection(baud, failAt, <<resp>>, <<>>)))

GetRingBufferAddresses ==
    /\ Idle
    /\ \E failAt \in FailPoints,
          resp \in AnswersWith({SubSeq(p, 1, 4) : p \in AddressPayloads}) :
          Finish("get_ring_buffer_addresses", ReadMemory(0, 64768, 4), FALSE, baud,
                 get_ring_buffer_addresses(Connection(baud, failAt, <<resp>>, <<>>)))

GetMemoHolderAddresses ==
    /\ Idle
    /\ \E failAt \in FailPoints, resp \in AnswersWith(AddressPayloads) :
          Finish("get_memo_holder_addresses", ReadMemory(0, 64834, 6), FALSE, baud,
                 get_memo_holder_addresses(Connection(baud, failAt, <<resp>>, <<>>)))

GetMemoHolderInfo ==
    /\ Idle
    /\ \E failAt \in FailPoints, resp \in AnswersWith(InfoPayloads) :
          Finish("get_memo_holder_info", ReadMemoHolderInfo, FALSE, baud,
                 get_memo_holder_info(Connection(baud, failAt, <<resp>>, <<>>)))

SendCommand ==
    /\ Idle
    /\ \E failAt \in FailPoints, command \in Commands :
          Finish("send_command", command, FALSE, baud,
                 send_command(Connection(baud, failAt, <<>>, <<>>), command))

ExpectOkResponse ==
    /\ Idle
    /\ \E failAt \in FailPoints, resp \in OkResponses :
          Finish("expect_ok_response", Wakeup, FALSE, baud,
                 expect_ok_response(Connection(baud, failAt, <<resp>>, <<>>)))

\* the outcome keeps payload_length as the length of a ReadMemory command
ExpectDataPacket ==
    /\ Idle
    /\ \E failAt \in FailPoints, payload_length \in ReadLengths :
        \E resp \in DataPacketResponses(payload_length) :
          Finish("expect_data_packet", ReadMemory(0, 0, payload_length), FALSE, baud,
                 expect_data_packet(Connection(baud, failAt, <<resp>>, <<>>),
                                    payload_length))

ReadMemoryInNewSession ==
    /\ Idle
    /\ \E opens \in BOOLEAN, fast \in BOOLEAN, at \in Targets, length \in ReadLengths,
          inq \in RunInquiryResponses :
        \E failAt \in FailPointsOf(opens), pkt \in PacketResponses(length),
           up \in OnlyFast(fast, RunOkResponses), eot \in OnlyFast(fast, RunEotResponses) :
          Finish("read_memory_in_new_session",
                 ReadMemory(at.memory_space, at.address, length),
                 fast, DEFAULT_BAUD_RATE,
                 read_memory_in_new_session(
                     Device(opens, failAt,
                            <<inq>> \o IfFast(fast, up) \o <<pkt>> \o IfFast(fast, eot)),
                     at.address, length, at.memory_space, fast))

WriteMemoryInNewSession ==
    /\ Idle
    /\ \E opens \in BOOLEAN, fast \in BOOLEAN, at \in Targets, values \in WriteValues,
          inq \in RunInquiryResponses, resp \in RunOkResponses :
        \E failAt \in FailPointsOf(opens),
           up \in OnlyFast(fast, RunOkResponses), eot \in OnlyFast(fast, RunEotResponses) :
          Finish("write_memory_in_new_session", WriteToMemory(at.address, values),
                 fast, DEFAULT_BAUD_RATE,
                 write_memory_in_new_session(
                     Device(opens, failAt,
                            <<inq>> \o IfFast(fast, up) \o <<resp>> \o IfFast(fast, eot)),
                     at.address, values, fast))

AutofocusInNewSession ==
    /\ Idle
    /\ \E opens \in BOOLEAN, inq \in RunInquiryResponses, resp \in TwoByteResponses :
        \E failAt \in FailPointsOf(opens) :
          Finish("autofocus_in_new_session", Focus, FALSE, DEFAULT_BAUD_RATE,
                 autofocus_in_new_session(Device(opens, failAt, <<inq, resp>>)))

ReleaseShutterInNewSession ==
    /\ Idle
    /\ \E opens \in BOOLEAN, inq \in RunInquiryResponses, resp \in TwoByteResponses :
        \E failAt \in FailPointsOf(opens) :
          Finish("release_shutter_in_new_session", Shoot, FALSE, DEFAULT_BAUD_RATE,
                 release_shutter_in_new_session(Device(opens, failAt, <<inq, resp>>)))

ReadMemoHolderInfoInNewSession ==
    /\ Idle
    /\ \E opens \in BOOLEAN, inq \in RunInquiryResponses, pkt \in PacketResponses(4) :
        \E failAt \in FailPointsOf(opens) :
          Finish("read_and_print_memo_holder_info_in_new_session", ReadMemoHolderInfo,
                 FALSE, DEFAULT_BAUD_RATE,
                 read_and_print_memo_holder_info_in_new_session(
                     Device(opens, failAt, <<inq, pkt>>)))

\* the functions of cli_commands.rs, each of which opens a connection of its own
CommandRuns ==
    {"read_memory_in_new_session", "write_memory_in_new_session",
     "autofocus_in_new_session", "release_shutter_in_new_session",
     "read_and_print_memo_holder_info_in_new_session"}

\* The caller takes the Result.  A command run drops its connection on return,
\* and the next connection is opened at the default speed
\* (SerialConnection::new); a connection used directly keeps its speed.
Return ==
    /\ ~Idle
    /\ outcome' = NoOutcome
    /\ trace' = <<>>
    /\ baud' = IF outcome.fn \in CommandRuns THEN DEFAULT_BAUD_RATE ELSE baud
    /\ UNCHANGED <<payload, framed, decoded, stage>>

Next ==
    \/ StartNewSession
    \/ UpgradeToFastSession
    \/ EndFastSession
    \/ GetRingBufferAddresses
    \/ GetMemoHolderAddresses
    \/ GetMemoHolderSetting
    \/ GetMemoHolderInfo
    \/ SendCommand
    \/ ExpectOkResponse
    \/ ExpectDataPacket
    \/ ReadMemoryInNewSession
    \/ WriteMemoryInNewSession
    \/ AutofocusInNewSession
    \/ ReleaseShutterInNewSession
    \/ ReadMemoHolderInfoInNewSession
    \/ Return

Spec == Init /\ [][Next]_vars

-----------------------------------------------------------------------------
(* Reading a trace *)

TransportOps == {"write", "read", "clear_input", "set_baud_rate"}

\* what the program asked of the transport or the clock, without the answer
Request(e) == [ev |-> e.ev, data |-> IF e.ev = "write" THEN e.data ELSE <<>>, n |-> e.n]

Requests(t) == [i \in 1 .. Len(t) |-> Request(t[i])]

WriteOf(data)  == [ev |-> "write", data |-> data, n |-> Len(data)]
ReadOf(n)      == [ev |-> "read", data |-> <<>>, n |-> n]
ClearInput     == [ev |-> "clear_input", data |-> <<>>, n |-> 0]
SetBaudRate(r) == [ev |-> "set_baud_rate", data |-> <<>>, n |-> r]
Sleep(ms)      == [ev |-> "sleep", data |-> <<>>, n |-> ms]

Positions(t, ev) == {i \in 1 .. Len(t) : t[i].ev = ev}

\* the transport call at position i was attempted and failed
FailedAt(t, i) == t[i].ev \in TransportOps /\ ~t[i].ok

Ran(fn) == outcome.fn = fn

-----------------------------------------------------------------------------
(* C1 as stated: for every payload, the empty one included, parsing the    *)
(* serialized packet succeeds and returns the payload.                     *)
C1_RoundTripAllPayloads ==
    stage = "deserialized" => decoded = Ok(payload)

(* C1 (amended): for every payload of at least one byte, parsing the       *)
(* serialized packet succeeds and returns exactly the payload; the framed  *)
(* empty payload has 3 bytes and is rejected.                              *)
C1_RoundTripNonEmpty ==
    stage = "deserialized" =>
        /\ payload # <<>> => decoded = Ok(payload)
        /\ payload = <<>> => ~decoded.ok

C1_Witness ==
    /\ stage = "deserialized"
    /\ Len(payload) = 2
    /\ decoded.ok
    /\ decoded.val = payload

-----------------------------------------------------------------------------
(* Claims about start_new_session *)

AllOk(t) == \A i \in 1 .. Len(t) : t[i].ok

StartSessionRequests ==
    << WriteOf(get_bytes(Wakeup)), Sleep(200), ClearInput,
       WriteOf(get_bytes(UnitInquiry)), ReadOf(16) >>

(* C2: a successful start_new_session asks the transport for exactly: a    *)
(* write of the Wakeup bytes, (a 200 ms sleep), clear_input, a write of    *)
(* the UnitInquiry bytes and a read of 16 bytes, each once, in that order, *)
(* and nothing else (no set_baud_rate, no further read or write).          *)
C2_StartSessionSequence ==
    (Ran("start_new_session") /\ outcome.ok) =>
        /\ Requests(trace) = StartSessionRequests
        /\ AllOk(trace)
        /\ Len(trace[5].data) = 16

C2_Witness ==
    /\ Ran("start_new_session")
    /\ outcome.ok
    /\ Len(trace) = 5
    /\ trace[3].data = <<6, 0>>

(* C3: when the Wakeup write, clear_input, the UnitInquiry write and the   *)
(* 16-byte read all succeed, start_new_session succeeds exactly when the   *)
(* bytes read equal the identification response in every position.        *)
C3_StartSessionValidates ==
    (Ran("start_new_session") /\ Requests(trace) = StartSessionRequests /\ AllOk(trace)) =>
        (outcome.ok <=>
            \A k \in 1 .. 16 : trace[5].data[k] = EXPECTED_UNIT_INQUIRY_RESPONSE[k])

C3_Witness ==
    /\ Ran("start_new_session")
    /\ Requests(trace) = StartSessionRequests
    /\ AllOk(trace)
    /\ ~outcome.ok
    /\ Cardinality({k \in 1 .. 16 :
                       trace[5].data[k] # EXPECTED_UNIT_INQUIRY_RESPONSE[k]}) = 1
    /\ trace[5].data[16] # EXPECTED_UNIT_INQUIRY_RESPONSE[16]

(* C4: when a transport step of start_new_session fails, the operation     *)
(* returns an error and that step is the last thing it did: no later       *)
(* clear_input, write or read follows the failed step.                     *)
C4_StartSessionAborts ==
    Ran("start_new_session") =>
        \A i \in 1 .. Len(trace) :
            FailedAt(trace, i) => (~outcome.ok /\ i = Len(trace))

C4_Witness ==
    /\ Ran("start_new_session")
    /\ ~outcome.ok
    /\ Len(trace) = 3
    /\ trace[3].ev = "clear_input"
    /\ FailedAt(trace, 3)

-----------------------------------------------------------------------------
(* Claims about upgrade_to_fast_session and end_fast_session *)

(* C5: a successful upgrade_to_fast_session does exactly: one write of the *)
(* baud-increase command, one 2-byte read that returns the OK response,    *)
(* (a 200 ms sleep), one set_baud_rate(9600); and in no run of it is       *)
(* set_baud_rate called before a read has returned the OK response.        *)
C5_UpgradeSequence ==
    Ran("upgrade_to_fast_session") =>
        /\ outcome.ok =>
              /\ Requests(trace) = << WriteOf(get_bytes(IncreaseBaudRate)), ReadOf(2),
                                      Sleep(200), SetBaudRate(9600) >>
              /\ AllOk(trace)
              /\ trace[2].data = OK_RESPONSE
        /\ \A i \in Positions(trace, "set_baud_rate") :
              \E j \in 1 .. i - 1 :
                  trace[j].ev = "read" /\ trace[j].ok /\ trace[j].data = OK_RESPONSE

C5_Witness ==
    /\ Ran("upgrade_to_fast_session")
    /\ outcome.ok
    /\ outcome.baud0 = DEFAULT_BAUD_RATE
    /\ baud = 9600

\* a write or read of the operation failed, or a read returned other than `expected`
FailedBeforeSwitch(t, expected) ==
    \E i \in 1 .. Len(t) :
        /\ t[i].ev \in {"write", "read"}
        /\ ~t[i].ok \/ (t[i].ev = "read" /\ t[i].data # expected)

(* C6: when upgrade_to_fast_session fails before the switch step (the      *)
(* write fails, the 2-byte read fails, or the bytes read are not the OK    *)
(* response), it returns an error, set_baud_rate is not called and the     *)
(* line speed is what it was.                                              *)
C6_UpgradeFailureKeepsSpeed ==
    (Ran("upgrade_to_fast_session") /\ FailedBeforeSwitch(trace, OK_RESPONSE)) =>
        /\ ~outcome.ok
        /\ Positions(trace, "set_baud_rate") = {}
        /\ baud = outcome.baud0

C6_Witness ==
    /\ Ran("upgrade_to_fast_session")
    /\ Len(trace) = 2
    /\ trace[2].ok
    /\ trace[2].data = <<6, 6>>
    /\ ~outcome.ok
    /\ baud = DEFAULT_BAUD_RATE

(* C7: a successful end_fast_session does exactly: one write of [4,4], one *)
(* 2-byte read that returns [4,4], (a 200 ms sleep), one                   *)
(* set_baud_rate(1200); when it returns success the line speed is the      *)
(* default 1200.                                                           *)
C7_EndFastSequence ==
    (Ran("end_fast_session") /\ outcome.ok) =>
        /\ Requests(trace) = << WriteOf(<<4, 4>>), ReadOf(2), Sleep(200),
                                SetBaudRate(1200) >>
        /\ AllOk(trace)
        /\ trace[2].data = <<4, 4>>
        /\ baud = 1200
        /\ baud = DEFAULT_BAUD_RATE

C7_Witness ==
    /\ Ran("end_fast_session")
    /\ outcome.ok
    /\ outcome.baud0 = 9600
    /\ baud = DEFAULT_BAUD_RATE

(* C8: when the write or the read of end_fast_session fails, or the 2      *)
(* bytes read differ from [4,4] in any position, it returns an error and   *)
(* does not call set_baud_rate: the line speed is not restored.            *)
C8_EndFastFailureKeepsSpeed ==
    (Ran("end_fast_session") /\ FailedBeforeSwitch(trace, <<4, 4>>)) =>
        /\ ~outcome.ok
        /\ Positions(trace, "set_baud_rate") = {}
        /\ baud = outcome.baud0

C8_Witness ==
    /\ Ran("end_fast_session")
    /\ Len(trace) = 2
    /\ trace[2].ok
    /\ trace[2].data = <<4, 0>>
    /\ ~outcome.ok
    /\ outcome.baud0 = 9600
    /\ baud = 9600

-----------------------------------------------------------------------------
(* Claims about the command runs of cli_commands.rs *)

InRun == outcome.fn \in CommandRuns

\* positions at which the run wrote its ordinary command to the transport
CommandWrites ==
    {i \in Positions(trace, "write") : trace[i].data = get_bytes(outcome.cmd)}

\* the CameraInterface method fn returned success to the run before position i
ReturnedOkBefore(fn, i) == \E j \in 1 .. i - 1 : trace[j].ev = fn /\ trace[j].ok

(* C9: in every command run the ordinary command is written to the         *)
(* transport only after start_new_session has returned success in that     *)
(* run and, with the fast option, only after upgrade_to_fast_session has   *)
(* returned success too; when either fails the command is never written.   *)
C9_CommandOnlyInSession ==
    InRun =>
        \A i \in CommandWrites :
            /\ ReturnedOkBefore("start_new_session", i)
            /\ outcome.fast => ReturnedOkBefore("upgrade_to_fast_session", i)

C9_Witness ==
    /\ Ran("read_memory_in_new_session")
    /\ outcome.fast
    /\ \E j \in 1 .. Len(trace) : trace[j].ev = "upgrade_to_fast_session" /\ ~trace[j].ok
    /\ CommandWrites = {}
    /\ ~outcome.ok

\* bytes the run reads in answer to its command
ResponseLength(cmd) ==
    CASE cmd.tag \in {"Focus", "Shoot", "WriteToMemory"} -> 2
      [] cmd.tag = "ReadMemory" -> cmd.length + 3
      [] cmd.tag = "ReadMemoHolderInfo" -> 4 + 3

(* C10: every ordinary command that was sent is followed, before any       *)
(* other transport call, by the read of its response: 2 bytes for Focus,   *)
(* Shoot and WriteToMemory, length + 3 bytes (a framed packet of `length`  *)
(* payload bytes) for ReadMemory, 4 + 3 bytes for ReadMemoHolderInfo.      *)
C10_CommandThenResponse ==
    InRun =>
        \A i \in CommandWrites :
            trace[i].ok =>
                /\ i < Len(trace)
                /\ trace[i + 1].ev = "read"
                /\ trace[i + 1].n = ResponseLength(outcome.cmd)

C10_Witness ==
    /\ Ran("write_memory_in_new_session")
    /\ outcome.fast
    /\ outcome.ok
    /\ \E i \in CommandWrites : trace[i + 1].ev = "read" /\ trace[i + 1].data = OK_RESPONSE

-----------------------------------------------------------------------------
(* The one path of a command run *)

IsPrefix(s, t) == Len(s) <= Len(t) /\ s = SubSeq(t, 1, Len(s))

SessionMethods == {"start_new_session", "upgrade_to_fast_session", "end_fast_session"}

GaveUp(e) == e.ev \in SessionMethods /\ ~e.ok

\* what the run did: its requests and the returns of the session methods that
\* succeeded (a method that returns an error did not complete its step)
Steps(t) == Requests(SelectSeq(t, LAMBDA e : ~GaveUp(e)))

Opened        == [ev |-> "open", data |-> <<>>, n |-> DEFAULT_BAUD_RATE]
Returned(fn)  == [ev |-> fn, data |-> <<>>, n |-> 0]
Printed       == [ev |-> "println", data |-> <<>>, n |-> 0]

UpgradeRequests ==
    << WriteOf(get_bytes(IncreaseBaudRate)), ReadOf(2), Sleep(200), SetBaudRate(9600) >>

EndFastRequests ==
    << WriteOf(<<4, 4>>), ReadOf(2), Sleep(200), SetBaudRate(1200) >>

\* everything a run of cmd does when every step succeeds, in order
WholeRun(cmd, fast) ==
    <<Opened>> \o StartSessionRequests \o <<Returned("start_new_session")>>
        \o (IF fast THEN UpgradeRequests \o <<Returned("upgrade_to_fast_session")>> ELSE <<>>)
        \o << WriteOf(get_bytes(cmd)), ReadOf(ResponseLength(cmd)) >>
        \o (IF cmd.tag \in {"ReadMemory", "WriteToMemory", "ReadMemoHolderInfo"}
            THEN <<Printed>> ELSE <<>>)
        \o (IF fast THEN EndFastRequests \o <<Returned("end_fast_session")>> ELSE <<>>)

(* C11: a command run follows one path.  What any run does is an initial   *)
(* part of: open, start_new_session, (with the fast option)                *)
(* upgrade_to_fast_session, the command and its response, (with the fast   *)
(* option) end_fast_session; a successful run does all of it.  Without the *)
(* fast option neither upgrade_to_fast_session nor end_fast_session runs   *)
(* and set_baud_rate is never called; focus, shoot and read-memo-info      *)
(* leave the line speed at the default.                                    *)
C11_LinearSession ==
    InRun =>
        /\ IsPrefix(Steps(trace), WholeRun(outcome.cmd, outcome.fast))
        /\ outcome.ok => Steps(trace) = WholeRun(outcome.cmd, outcome.fast)
        /\ ~outcome.fast =>
              /\ Positions(trace, "upgrade_to_fast_session") = {}
              /\ Positions(trace, "end_fast_session") = {}
              /\ Positions(trace, "set_baud_rate") = {}
              /\ baud = DEFAULT_BAUD_RATE
        /\ outcome.cmd.tag \in {"Focus", "Shoot", "ReadMemoHolderInfo"} => ~outcome.fast

C11_Witness ==
    /\ Ran("write_memory_in_new_session")
    /\ outcome.fast
    /\ outcome.ok
    /\ Len(trace) = 20
    /\ trace[11].ev = "set_baud_rate" /\ trace[11].n = 9600
    /\ trace[19].ev = "set_baud_rate" /\ trace[19].n = 1200
    /\ baud = DEFAULT_BAUD_RATE

-----------------------------------------------------------------------------
(* No retry *)

\* the functions of shooting_data.rs that ask the camera
Getters ==
    {"get_ring_buffer_addresses", "get_memo_holder_addresses",
     "get_memo_holder_setting", "get_memo_holder_info"}

\* everything the operation that ran does when every step succeeds
WholeOperation ==
    CASE Ran("start_new_session")       -> StartSessionRequests
      [] Ran("upgrade_to_fast_session") -> UpgradeRequests
      [] Ran("end_fast_session")        -> EndFastRequests
      [] Ran("send_command")            -> << WriteOf(get_bytes(outcome.cmd)) >>
      [] Ran("expect_ok_response")      -> << ReadOf(2) >>
      [] Ran("expect_data_packet")      -> << ReadOf(outcome.cmd.length + 3) >>
      [] outcome.fn \in Getters         ->
             << WriteOf(get_bytes(outcome.cmd)), ReadOf(ResponseLength(outcome.cmd)) >>
      [] OTHER                          -> WholeRun(outcome.cmd, outcome.fast)

\* the read at position i answers the write just before it, if there is one
AnswersWrite(i, bytes) == i > 1 /\ trace[i - 1].ev = "write" /\ trace[i - 1].data = bytes

\* the bytes the read at position i returned pass the validation made of them
Accepted(i) ==
    LET got == trace[i].data
    IN  CASE AnswersWrite(i, get_bytes(UnitInquiry)) -> got = EXPECTED_UNIT_INQUIRY_RESPONSE
          [] AnswersWrite(i, <<4, 4>>) -> got = <<4, 4>>
          [] Ran("expect_data_packet") -> deserialize(got).ok
          [] /\ outcome.cmd.tag \in {"ReadMemory", "ReadMemoHolderInfo"}
             /\ AnswersWrite(i, get_bytes(outcome.cmd)) -> deserialize(got).ok
          [] OTHER -> got = OK_RESPONSE

\* the step at position i failed: the transport refused it, or what was read
\* was rejected
StepFailed(i) ==
    \/ FailedAt(trace, i)
    \/ trace[i].ev = "read" /\ trace[i].ok /\ ~Accepted(i)

(* C12: nothing is retried.  In every run of every session or command      *)
(* operation the steps taken are an initial part of the operation's one    *)
(* sequence of steps, so each is attempted at most once; after the first   *)
(* step that fails (transport error, frame error, validation error) no     *)
(* transport call and no sleep follows, and the operation returns an error *)
(* with a message to its caller.                                           *)
C12_NoRetry ==
    ~Idle =>
        /\ IsPrefix(Steps(trace), WholeOperation)
        /\ \A i \in 1 .. Len(trace) :
              StepFailed(i) =>
                  /\ \A j \in i + 1 .. Len(trace) : GaveUp(trace[j])
                  /\ ~outcome.ok
                  /\ outcome.err # ""
        /\ (InRun /\ ~outcome.ok /\ trace # <<>>) =>
              \/ ~trace[1].ok
              \/ \E i \in 1 .. Len(trace) : StepFailed(i)

\* a fast read run stopped by a response to the speed request that is not OK
C12_Witness ==
    /\ Ran("read_memory_in_new_session")
    /\ outcome.fast
    /\ ~outcome.ok
    /\ Len(trace) = 10
    /\ trace[9].ev = "read" /\ trace[9].ok /\ trace[9].data = <<6, 6>>
    /\ GaveUp(trace[10])

-----------------------------------------------------------------------------
(* expect_ok_response *)

C14_OkIsAckAck ==
    Ran("expect_ok_response") =>
        (outcome.ok <=> (trace[1].ok /\ trace[1].data = <<6, 6>>))

\* the camera answers 0x06 0x06 and expect_ok_response returns an error
C14_Witness ==
    /\ Ran("expect_ok_response")
    /\ trace[1].ok
    /\ trace[1].data = <<6, 6>>
    /\ ~outcome.ok
    /\ outcome.err = "Error when expecting OK response."

-----------------------------------------------------------------------------
(* expect_data_packet *)

(* C15: expect_data_packet(n) asks the transport for exactly one read, of  *)
(* exactly n + 3 bytes, and returns what deserializing those bytes gives:  *)
(* it succeeds exactly when the read and the deserialization succeed, the  *)
(* payload it then returns has n bytes, the ones after the start byte of   *)
(* what was read, and otherwise it returns the error of the read or of     *)
(* the deserialization.                                                    *)
C15_ExpectDataPacket ==
    Ran("expect_data_packet") =>
        LET n   == outcome.cmd.length
            got == trace[1].data
        IN  /\ Requests(trace) = << ReadOf(n + 3) >>
            /\ outcome.ok <=> (trace[1].ok /\ deserialize(got).ok)
            /\ outcome.ok =>
                  /\ outcome.val = deserialize(got).val
                  /\ Len(outcome.val) = n
                  /\ outcome.val = SubSeq(got, 2, n + 1)
            /\ ~trace[1].ok => outcome.err = "Error reading bytes."
            /\ (trace[1].ok /\ ~deserialize(got).ok) => outcome.err = deserialize(got).val

\* a packet of the largest payload a u8 length asks for is read and returned
C15_Witness ==
    /\ Ran("expect_data_packet")
    /\ outcome.cmd.length = 255
    /\ trace[1].n = 258
    /\ outcome.ok
    /\ outcome.val = [i \in 1 .. 255 |-> 17]

-----------------------------------------------------------------------------
(* One byte of an accepted packet replaced *)

\* the position at which the packet given to deserialize differs from the
\* packet that was serialized
ChangedAt ==
    LET sent == serialize(payload)
    IN  CHOOSE i \in 1 .. Len(framed) : framed[i] # sent[i]

\* the replacement is of a payload byte and adds or takes 255, which the
\* checksum does not see
Unseen(i) ==
    /\ i \in 2 .. Len(framed) - 2
    /\ {payload[i - 1], framed[i]} = {0, 255}

(* C16 as stated: whatever byte of an accepted packet is replaced by a     *)
(* different value, deserialize fails.                                     *)
C16_AnyChangeRejected ==
    stage = "changed" => ~decoded.ok

(* C16 (amended): replacing one byte of an accepted packet by a different  *)
(* value makes deserialize fail, with the header error at the start byte,  *)
(* the end error at the end byte and the checksum error elsewhere, unless  *)
(* a payload byte 0x00 is replaced by 0xFF or 0xFF by 0x00: then the       *)
(* packet is accepted and the changed payload returned.                    *)
C16_ChangeRejectedUnlessUnseen ==
    stage = "changed" =>
        LET i == ChangedAt
        IN  IF Unseen(i)
            THEN decoded = Ok(SubSeq(framed, 2, Len(framed) - 2))
            ELSE decoded =
                     Err(CASE i = 1 -> "Data packet header is wrong."
                           [] i = Len(framed) -> "Data packet end is wrong."
                           [] OTHER -> "Received wrong checksum.")

\* the packet of the payload 0x00 arrives as the packet of the payload 0xFF
C16_Witness ==
    /\ stage = "changed"
    /\ payload = <<0>>
    /\ framed = <<2, 255, 0, 3>>
    /\ decoded = Ok(<<255>>)

-----------------------------------------------------------------------------
(* Input too short for a packet *)

(* C17: whatever bytes it is given, deserialize returns the too-short      *)
(* error when they are 0, 1, 2 or 3 bytes, the well-framed packet of the   *)
(* empty payload included, and never returns it for 4 bytes or more.       *)
C17_TooShort ==
    stage = "received" =>
        (Len(framed) < 4 <=> decoded = Err("Data packet has incorrect number of bytes."))

\* the packet of the empty payload is rejected as too short
C17_Witness ==
    /\ stage = "received"
    /\ framed = <<2, 0, 3>>
    /\ decoded = Err("Data packet has incorrect number of bytes.")

-----------------------------------------------------------------------------
(* The checksum *)

\* the sum of data[lo .. hi] as a number, without any reduction
RECURSIVE SumOf(_, _, _)
SumOf(data, lo, hi) ==
    IF lo > hi THEN 0
    ELSE IF lo = hi THEN data[lo]
    ELSE LET mid == (lo + hi) \div 2
         IN  SumOf(data, lo, mid) + SumOf(data, mid + 1, hi)

(* C18: for every payload, of any length, the checksum computed with a     *)
(* reduction modulo 255 after every byte, and so the checksum byte of the  *)
(* serialized packet, equals the sum of all payload bytes reduced modulo   *)
(* 255 once.                                                               *)
C18_ChecksumIsSumMod255 ==
    stage = "serialized" =>
        LET once == SumOf(payload, 1, Len(payload)) % 255
        IN  /\ calculate_checksum(payload) = once
            /\ framed[Len(payload) + 2] = once

\* a payload whose bytes add up to more than a u16 holds
C18_Witness ==
    /\ stage = "serialized"
    /\ Len(payload) = 300
    /\ SumOf(payload, 1, Len(payload)) = 76500
    /\ framed[302] = 0

\* the accumulator after the first k bytes of the payload
AccumulatorAfter(k) == checksum_loop(payload, 1, k, 0)

(* C19: for every payload the checksum byte is between 0 and 254, never    *)
(* 255 (the payload of the one byte 0xFF has checksum 0); the accumulator  *)
(* is below 255 after each step, and within a step, before the reduction,  *)
(* it is at most 254 + 255, far below what 16 bits hold.                   *)
C19_ChecksumRange ==
    stage = "serialized" =>
        /\ framed[Len(payload) + 2] \in 0 .. 254
        /\ payload = <<255>> => framed[2 + 1] = 0
        /\ \A k \in 0 .. Len(payload) : AccumulatorAfter(k) \in 0 .. 254
        /\ \A k \in 1 .. Len(payload) :
              AccumulatorAfter(k - 1) + payload[k] <= 254 + 255

\* the payload of the one byte 0xFF is framed with the checksum 0
C19_Witness ==
    /\ stage = "serialized"
    /\ payload = <<255>>
    /\ framed = <<2, 255, 0, 3>>
    /\ AccumulatorAfter(1) = 0

-----------------------------------------------------------------------------
(* The size of the packets written and asked for *)

\* positions at which a WriteToMemory command was written: 8 bytes of
\* command, then the packet
WriteCommandWrites ==
    {i \in Positions(trace, "write") :
        Len(trace[i].data) >= 8 /\ SubSeq(trace[i].data, 1, 3) = <<1, 32, 129>>}

PacketWritten(i) == SubSeq(trace[i].data, 9, Len(trace[i].data))

\* positions at which expect_data_packet read
PacketReads ==
    {i \in Positions(trace, "read") :
        \/ Ran("expect_data_packet")
        \/ /\ outcome.cmd.tag \in {"ReadMemory", "ReadMemoHolderInfo"}
           /\ AnswersWrite(i, get_bytes(outcome.cmd))}

(* C20 as stated: the packet inside every WriteToMemory command written,   *)
(* and every read of a packet, has at most 255 bytes.                      *)
C20_FramedAtMost255 ==
    ~Idle =>
        /\ \A i \in WriteCommandWrites : Len(PacketWritten(i)) <= 255
        /\ \A i \in PacketReads : trace[i].n <= 255

(* C20 (amended): the payload of a packet has at most 255 bytes, so the    *)
(* packet inside every WriteToMemory command written, and every read of a  *)
(* packet, has at most 255 + 3 = 258 bytes; a WriteToMemory command of     *)
(* more than 255 values encodes to no bytes at all.                        *)
C20_FramedAtMost258 ==
    ~Idle =>
        /\ \A i \in WriteCommandWrites :
              /\ Len(outcome.cmd.values) <= 255
              /\ PacketWritten(i) = serialize(outcome.cmd.values)
              /\ Len(PacketWritten(i)) = Len(outcome.cmd.values) + 3
              /\ Len(PacketWritten(i)) <= 258
        /\ \A i \in PacketReads : trace[i].n <= 258
        /\ (/\ Ran("send_command")
            /\ outcome.cmd.tag = "WriteToMemory"
            /\ Len(outcome.cmd.values) > 255) => trace[1].data = <<>>

\* a WriteToMemory command of 255 values is written with a packet of 258 bytes
C20_Witness ==
    /\ Ran("send_command")
    /\ outcome.cmd.tag = "WriteToMemory"
    /\ Len(outcome.cmd.values) = 255
    /\ trace[1].ok
    /\ Len(trace[1].data) = 8 + 258
    /\ 1 \in WriteCommandWrites

-----------------------------------------------------------------------------
(* The encoder of the memory commands *)

\* send_command was given a command of this tag and its write went through:
\* what was written is what the encoder produced
Encoded(tag) == Ran("send_command") /\ outcome.cmd.tag = tag /\ trace[1].ok

(* C21: encoding WriteToMemory gives no bytes at all exactly when there    *)
(* are more than 255 values; for 0 to 255 values it gives a command, which *)
(* is not empty.                                                           *)
C21_EncodingFailsAbove255 ==
    Encoded("WriteToMemory") =>
        /\ Len(outcome.cmd.values) > 255 <=> trace[1].data = <<>>
        /\ Len(outcome.cmd.values) <= 255 => Len(trace[1].data) > 0

\* 256 values encode to nothing
C21_Witness ==
    /\ Encoded("WriteToMemory")
    /\ Len(outcome.cmd.values) = 256
    /\ trace[1].data = <<>>

(* C22: a write run given more than 255 values returns an error before any *)
(* I/O: the device is not opened and nothing is written, read, cleared or  *)
(* set on the transport.                                                   *)
C22_OversizedWriteRejectedBeforeIO ==
    (Ran("write_memory_in_new_session") /\ Len(outcome.cmd.values) > 255) =>
        /\ ~outcome.ok
        /\ outcome.err = "Too many values given."
        /\ trace = <<>>
        /\ baud = outcome.baud0

C22_Witness ==
    /\ Ran("write_memory_in_new_session")
    /\ Len(outcome.cmd.values) = 256
    /\ outcome.fast
    /\ ~outcome.ok
    /\ trace = <<>>

(* C23: for every address and every 0 to 255 values, the WriteToMemory     *)
(* command is 01 20 81 00, the address high byte then low byte, 00, the    *)
(* number of values, and then the packet 02, the values, their checksum,   *)
(* 03: the length byte is the number of payload bytes of the packet and    *)
(* the command has 11 bytes more than there are values.                    *)
C23_WriteCommandLayout ==
    (Encoded("WriteToMemory") /\ Len(outcome.cmd.values) <= 255) =>
        LET values  == outcome.cmd.values
            address == outcome.cmd.address
            written == trace[1].data
        IN  /\ written =
                  <<1, 32, 129, 0, address \div 256, address % 256, 0, Len(values)>>
                      \o <<2>> \o values \o <<calculate_checksum(values)>> \o <<3>>
            /\ written[8] = Len(SubSeq(written, 10, Len(written) - 2))
            /\ Len(written) = Len(values) + 11

\* the command of the encoder's first test
C23_Witness ==
    /\ Encoded("WriteToMemory")
    /\ outcome.cmd.address = 43707
    /\ outcome.cmd.values = <<12, 13, 14>>
    /\ trace[1].data = <<1, 32, 129, 0, 170, 187, 0, 3, 2, 12, 13, 14, 39, 3>>

(* C24: for every memory space, 16-bit address and length, the ReadMemory  *)
(* command is exactly the 9 bytes 01 20 80, the memory space, the address  *)
(* high byte then low byte, 00, the length, 03.                            *)
C24_ReadCommandLayout ==
    Encoded("ReadMemory") =>
        trace[1].data =
            <<1, 32, 128, outcome.cmd.memory_space,
              outcome.cmd.address \div 256, outcome.cmd.address % 256,
              0, outcome.cmd.length, 3>>

C24_Witness ==
    /\ Encoded("ReadMemory")
    /\ outcome.cmd.memory_space = 161
    /\ outcome.cmd.address = 45763
    /\ outcome.cmd.length = 255
    /\ trace[1].data = <<1, 32, 128, 161, 178, 195, 0, 255, 3>>

-----------------------------------------------------------------------------
(* The decoders of shooting_data.rs *)

\* the camera was asked and a packet that deserializes came back
PacketCame == Len(trace) = 2 /\ trace[2].ok /\ deserialize(trace[2].data).ok

\* the payload of the packet that came back
PayloadRead == deserialize(trace[2].data).val

\* what a getter asks of the transport: the command, and once it is written
\* the read of the packet
AsksOnce(command_bytes, payload_length) ==
    Requests(trace) =
        IF trace[1].ok
        THEN << WriteOf(command_bytes), ReadOf(payload_length + 3) >>
        ELSE << WriteOf(command_bytes) >>

(* C25: get_memo_holder_setting sends ReadMemory of 1 byte at 0xFD40 in    *)
(* memory space 0 and then expects a packet of 1 byte; for the byte b that *)
(* comes back it returns DoNotStore when bit 0x40 of b is clear, whatever  *)
(* the other bits, Minimum, Intermediate, Full for 0x45, 0x4E, 0x5F, and   *)
(* an error for every other b with bit 0x40 set.                           *)
C25_MemoHolderSetting ==
    Ran("get_memo_holder_setting") =>
        /\ AsksOnce(<<1, 32, 128, 0, 253, 64, 0, 1, 3>>, 1)
        /\ ~PacketCame => ~outcome.ok
        /\ PacketCame =>
              LET b == PayloadRead[1]
              IN  CASE (b \div 64) % 2 = 0 -> outcome.ok /\ outcome.val = "DoNotStore"
                    [] b = 69 -> outcome.ok /\ outcome.val = "Minimum"
                    [] b = 78 -> outcome.ok /\ outcome.val = "Intermediate"
                    [] b = 95 -> outcome.ok /\ outcome.val = "Full"
                    [] OTHER  -> /\ ~outcome.ok
                                 /\ outcome.err = "Unspecified memo holder setting value"

\* 0x9F has the other bits of Full and bit 0x40 clear
C25_Witness ==
    /\ Ran("get_memo_holder_setting")
    /\ PacketCame
    /\ PayloadRead = <<159>>
    /\ outcome.ok
    /\ outcome.val = "DoNotStore"

(* C26: for every 16-bit value v, read_4_digit_bcd(v) fails exactly when   *)
(* one of the four nibbles of v is above 9; otherwise it returns           *)
(* d0 + 10 d1 + 100 d2 + 1000 d3, d0 the least significant nibble: a       *)
(* number up to 9999 whose decimal digits are the hex digits of v.         *)
C26_Bcd ==
    (stage = "decoded" /\ outcome.fn = "read_4_digit_bcd") =>
        LET v    == outcome.encoded
            d(k) == (v \div 16 ^ k) % 16
        IN  /\ ~decoded.ok <=> \E k \in 0 .. 3 : d(k) > 9
            /\ decoded.ok =>
                  /\ decoded.val = d(0) + d(1) * 10 + d(2) * 100 + d(3) * 1000
                  /\ decoded.val \in 0 .. 9999
                  /\ \A k \in 0 .. 3 : (decoded.val \div 10 ^ k) % 10 = d(k)

\* 0x3162 reads 3162
C26_Witness ==
    /\ stage = "decoded"
    /\ outcome.fn = "read_4_digit_bcd"
    /\ outcome.encoded = 12642
    /\ decoded = Ok(3162)

(* C27: for every byte sequence and offset, read_little_endian_u16 fails   *)
(* exactly when offset + 1 >= length (the empty sequence and an offset at  *)
(* the last byte included), with an error and not by reading outside the   *)
(* sequence; otherwise it returns bytes[offset] + 256 * bytes[offset + 1]. *)
C27_LittleEndianU16 ==
    (stage = "decoded" /\ outcome.fn = "read_little_endian_u16") =>
        LET offset == outcome.start_index
        IN  IF offset + 1 >= Len(payload)
            THEN decoded = Err("Not enough bytes to read a u16.")
            ELSE decoded = Ok(payload[offset + 1] + 256 * payload[offset + 2])

\* 12 34 56 78 read at offset 2 gives 0x7856
C27_Witness ==
    /\ stage = "decoded"
    /\ outcome.fn = "read_little_endian_u16"
    /\ payload = <<18, 52, 86, 120>>
    /\ outcome.start_index = 2
    /\ decoded = Ok(30806)

\* bytes i and i + 1 of the payload, counted from 0, low byte first
U16At(p, i) == p[i + 1] + 256 * p[i + 2]

(* C28: get_memo_holder_addresses sends ReadMemory of 6 bytes at 0xFD42 in *)
(* memory space 0 once, then expects a packet of 6 bytes once, and returns *)
(* current from bytes 0..2, start from bytes 2..4 and current_roll_start   *)
(* from bytes 4..6 of the payload, each little-endian.                     *)
C28_MemoHolderAddresses ==
    Ran("get_memo_holder_addresses") =>
        /\ AsksOnce(<<1, 32, 128, 0, 253, 66, 0, 6, 3>>, 6)
        /\ outcome.ok <=> PacketCame
        /\ outcome.ok =>
              outcome.val = [current            |-> U16At(PayloadRead, 0),
                             start              |-> U16At(PayloadRead, 2),
                             current_roll_start |-> U16At(PayloadRead, 4)]

\* the payload of the test: 98 76 AB CD 12 34
C28_Witness ==
    /\ Ran("get_memo_holder_addresses")
    /\ PacketCame
    /\ PayloadRead = <<152, 118, 171, 205, 18, 52>>
    /\ outcome.val = [current |-> 30360, start |-> 52651, current_roll_start |-> 13330]

\* the byte holds two decimal digits
TwoDigits(byte) == (byte % 16) <= 9 /\ (byte \div 16) <= 9

(* C29: get_memo_holder_info sends ReadMemoHolderInfo once, then expects a *)
(* packet of 4 bytes once; it returns roll_id, the 4-digit BCD number in   *)
(* the little-endian u16 of bytes 0..2, and bytes_to_read, the             *)
(* little-endian u16 of bytes 2..4; when the roll number is not valid BCD  *)
(* it returns an error and no MemoHolderInfo.                              *)
C29_MemoHolderInfo ==
    Ran("get_memo_holder_info") =>
        /\ AsksOnce(get_bytes(ReadMemoHolderInfo), 4)
        /\ ~PacketCame => ~outcome.ok
        /\ PacketCame =>
              LET p == PayloadRead
              IN  /\ outcome.ok <=> (TwoDigits(p[1]) /\ TwoDigits(p[2]))
                  /\ read_4_digit_bcd(U16At(p, 0)).ok <=> outcome.ok
                  /\ outcome.ok =>
                        outcome.val =
                            [roll_id |-> (p[1] % 16) + 10 * (p[1] \div 16)
                                             + 100 * (p[2] % 16) + 1000 * (p[2] \div 16),
                             bytes_to_read |-> U16At(p, 2)]
                  /\ ~outcome.ok =>
                        outcome.val = <<>> /\ outcome.err = "Invalid nibble value"

\* the payload of the test: 37 13 CD AB is roll 1337 with 0xABCD bytes
C29_Witness ==
    /\ Ran("get_memo_holder_info")
    /\ PacketCame
    /\ PayloadRead = <<55, 19, 205, 171>>
    /\ outcome.ok
    /\ outcome.val = [roll_id |-> 1337, bytes_to_read |-> 43981]

-----------------------------------------------------------------------------
(* What deserialize accepts *)

(* C30: deserialize succeeds exactly when its input has at least 4 bytes,  *)
(* begins with 0x02, ends with 0x03 and has, before the last byte, the     *)
(* checksum of the bytes between the first byte and the checksum byte; it  *)
(* then returns those bytes: 3 fewer than the input, never none.           *)
C30_DeserializeAccepts ==
    stage \in {"deserialized", "received", "changed"} =>
        LET n        == Len(framed)
            interior == SubSeq(framed, 2, n - 2)
        IN  /\ decoded.ok <=>
                  /\ n >= 4
                  /\ framed[1] = 2
                  /\ framed[n] = 3
                  /\ framed[n - 1] = SumOf(framed, 2, n - 2) % 255
            /\ decoded.ok =>
                  /\ decoded.val = interior
                  /\ Len(decoded.val) = n - 3
                  /\ Len(decoded.val) >= 1

\* the packet of the test with a checksum above one byte's sum: FA 0A 04 -> 09
C30_Witness ==
    /\ stage = "received"
    /\ framed = <<2, 250, 10, 4, 9, 3>>
    /\ decoded = Ok(<<250, 10, 4>>)

-----------------------------------------------------------------------------
(* send_command and a command that does not encode *)

\* the command is a WriteToMemory of more values than a command can carry
Oversized(cmd) == cmd.tag = "WriteToMemory" /\ Len(cmd.values) > 255

(* C31 as stated: send_command makes one transport write, of exactly the   *)
(* encoded bytes of the command, and returns the result of that write;     *)
(* given a WriteToMemory command of more than 255 values it returns an     *)
(* error and makes no transport write.                                     *)
C31_SendCommandPropagates ==
    Ran("send_command") =>
        IF Oversized(outcome.cmd)
        THEN ~outcome.ok /\ Positions(trace, "write") = {}
        ELSE /\ Requests(trace) = << WriteOf(get_bytes(outcome.cmd)) >>
             /\ outcome.ok = trace[1].ok

\* send_command is given 256 values: it writes no bytes to the transport,
\* the transport accepts that, and send_command returns success
C31_Witness ==
    /\ Ran("send_command")
    /\ Oversized(outcome.cmd)
    /\ Len(trace) = 1
    /\ trace[1].ev = "write"
    /\ trace[1].data = <<>>
    /\ trace[1].ok
    /\ outcome.ok

-----------------------------------------------------------------------------
(* start_new_session and the bytes clear_input discards *)

\* the transport calls of t, in order
TransportCalls(t) == SelectSeq(t, LAMBDA e : e.ev \in TransportOps)

\* which transport call of the run failed (0 when none did)
ScriptFailAt(t) ==
    LET calls  == TransportCalls(t)
        failed == {i \in 1 .. Len(calls) : ~calls[i].ok}
    IN  IF failed = {} THEN 0 ELSE CHOOSE i \in failed : \A j \in failed : i <= j

\* what the device answered to the reads of the run
ScriptRx(t) ==
    LET reads == SelectSeq(t, LAMBDA e : e.ev = "read" /\ e.ok)
    IN  [i \in 1 .. Len(reads) |-> reads[i].data]

\* what the clear_input of the run discarded
Discarded(t) ==
    LET clears == SelectSeq(t, LAMBDA e : e.ev = "clear_input")
    IN  IF clears = <<>> THEN <<>> ELSE clears[1].data

\* the run with the bytes every clear_input discarded left out
Blur(t) == [i \in 1 .. Len(t) |-> IF t[i].ev = "clear_input" THEN [t[i] EXCEPT !.data = <<>>] ELSE t[i]]

\* start_new_session run again on the device of the run, whose input buffer
\* holds `cleared` when clear_input is called
Rerun(cleared) ==
    start_new_session(Connection(outcome.baud0, ScriptFailAt(trace), ScriptRx(trace), cleared))

(* C32: the bytes clear_input discards in start_new_session are not        *)
(* inspected: the same device with any other content of the input buffer   *)
(* is asked the same transport operations, answers them the same way, and  *)
(* start_new_session returns the same Result and leaves the same speed.    *)
C32_DiscardedBytesNotInspected ==
    Ran("start_new_session") =>
        /\ Rerun(Discarded(trace)).c.trace = trace
        /\ \A cleared \in ClearedSamples :
              LET r == Rerun(cleared)
              IN  /\ Blur(r.c.trace) = Blur(trace)
                  /\ r.ok = outcome.ok
                  /\ r.err = outcome.err
                  /\ r.val = outcome.val
                  /\ r.c.baud = baud

\* a session started although clear_input discarded an OK response
C32_Witness ==
    /\ Ran("start_new_session")
    /\ outcome.ok
    /\ Len(trace) = 5
    /\ trace[3].ev = "clear_input"
    /\ trace[3].ok
    /\ trace[3].data = <<6, 0>>
    /\ trace[4] = Event("write", get_bytes(UnitInquiry), Len(get_bytes(UnitInquiry)), TRUE)
    /\ trace[5].ev = "read"

-----------------------------------------------------------------------------
(* the fast session of a read or write run that fails at its command *)

\* upgrade_to_fast_session returned success to the run
Upgraded == \E j \in 1 .. Len(trace) : trace[j].ev = "upgrade_to_fast_session" /\ trace[j].ok

\* the command of the run was written and its response was read and accepted
CommandDone ==
    \E i \in CommandWrites :
        /\ trace[i].ok
        /\ i < Len(trace)
        /\ trace[i + 1].ev = "read"
        /\ trace[i + 1].ok
        /\ Accepted(i + 1)

\* the error of the last step of the run: of the transport when it refused
\* the step, of the check of what was read otherwise
LastStepError ==
    LET e == trace[Len(trace)]
    IN  IF ~e.ok
        THEN IF e.ev = "write" THEN "Error writing given bytes" ELSE "Error reading bytes."
        ELSE IF outcome.cmd.tag = "ReadMemory"
             THEN deserialize(e.data).val
             ELSE "Error when expecting OK response."

(* C33: in a read or write run with the fast option in which               *)
(* upgrade_to_fast_session has returned success, end_fast_session is       *)
(* called exactly when the command was written and its response read and   *)
(* accepted; otherwise the run returns the error of the step that failed,  *)
(* writes no end-of-transmission marker, makes no set_baud_rate(1200) and  *)
(* ends with the line speed at 9600.                                       *)
C33_FastSessionLeftOpenOnError ==
    /\ outcome.fn \in {"read_memory_in_new_session", "write_memory_in_new_session"}
    /\ outcome.fast
    /\ Upgraded
    =>  /\ Positions(trace, "end_fast_session") # {} <=> CommandDone
        /\ (\E i \in Positions(trace, "write") : trace[i].data = <<4, 4>>) <=> CommandDone
        /\ ~CommandDone =>
              /\ ~outcome.ok
              /\ outcome.err = LastStepError
              /\ trace[Len(trace)].ev \in {"write", "read"}
              /\ \A i \in Positions(trace, "set_baud_rate") : trace[i].n # DEFAULT_BAUD_RATE
              /\ baud = 9600

\* a fast read run whose packet arrives with a wrong checksum: the run ends
\* at that read with the line still at 9600
C33_Witness ==
    /\ Ran("read_memory_in_new_session")
    /\ outcome.fast
    /\ Upgraded
    /\ ~outcome.ok
    /\ outcome.err = "Received wrong checksum."
    /\ trace[Len(trace)].ev = "read"
    /\ trace[Len(trace)].ok
    /\ AnswersWrite(Len(trace), get_bytes(outcome.cmd))
    /\ baud = 9600
    /\ Positions(trace, "end_fast_session") = {}

-----------------------------------------------------------------------------
(* a data packet of no payload bytes *)

\* the session of the run is established: start_new_session has returned
\* success and, with the fast option, upgrade_to_fast_session too
SessionReady ==
    /\ \E j \in 1 .. Len(trace) : trace[j].ev = "start_new_session" /\ trace[j].ok
    /\ outcome.fast => Upgraded

(* C34: expect_data_packet(0) never succeeds: it makes one read, of 3      *)
(* bytes, and whatever bytes arrive the Result is the error of a packet    *)
(* with too few bytes. A read run of length 0 never succeeds and prints    *)
(* nothing; no check of the length precedes the I/O, so once its session   *)
(* is established the ReadMemory command is written, and after a           *)
(* successful write the run ends at the read of 3 bytes that follows it,   *)
(* with the error of that read or of a packet with too few bytes.          *)
C34_EmptyReadAlwaysFails ==
    /\ Ran("expect_data_packet") /\ outcome.cmd.length = 0 =>
          /\ ~outcome.ok
          /\ Requests(trace) = << ReadOf(3) >>
          /\ trace[1].ok => /\ Len(trace[1].data) = 3
                            /\ outcome.err = "Data packet has incorrect number of bytes."
    /\ Ran("read_memory_in_new_session") /\ outcome.cmd.length = 0 =>
          /\ ~outcome.ok
          /\ Positions(trace, "println") = {}
          /\ SessionReady =>
                /\ CommandWrites # {}
                /\ \A i \in CommandWrites :
                      /\ trace[i].ok =>
                            /\ Len(trace) = i + 1
                            /\ Request(trace[i + 1]) = ReadOf(3)
                            /\ outcome.err = IF trace[i + 1].ok
                                              THEN "Data packet has incorrect number of bytes."
                                              ELSE "Error reading bytes."

\* a read run of length 0 to which the device answers the framed packet of
\* the empty payload: the command was written, and the run ends in an error
C34_Witness ==
    /\ Ran("read_memory_in_new_session")
    /\ outcome.cmd.length = 0
    /\ CommandWrites # {}
    /\ trace[Len(trace)].ev = "read"
    /\ trace[Len(trace)].ok
    /\ trace[Len(trace)].data = serialize(<<>>)
    /\ ~outcome.ok
    /\ outcome.err = "Data packet has incorrect number of bytes."

====
